---- MODULE Spec2Model ----
(***************************************************************************)
(* QuackView: the analysis-to-SQL compiler (SQLGenerator), the DuckDB type *)
(* predicates it relies on, the capability lists it offers, the executor   *)
(* (SQLExecutor) that runs what it compiles, the analyzer's rule table     *)
(* (ExcelAnalyzer), the API service (QuackViewService) with its session    *)
(* table and HTTP routes, and the query facade (DBEngine).                 *)
(*                                                                         *)
(* SQL text is modelled as the sequence of its tokens: the text of a       *)
(* statement is the tokens joined by single spaces (a "," token attaches   *)
(* to the token on its left).  Raw column types are sequences of           *)
(* characters so that lower-casing and split("(") are computed.            *)
(***************************************************************************)
EXTENDS Integers, Sequences, FiniteSets, TLC

VARIABLES table_name, column_types, call, result, memo, sessions, engine_log, db_engine,
          issued

vars == <<table_name, column_types, call, result, memo, sessions, engine_log, db_engine, issued>>


(***************************************************************************)
(* Generic sequence helpers.                                               *)
(***************************************************************************)


RECURSIVE JoinWith(_, _)
JoinWith(ss, sep) ==
    IF ss = <<>> THEN <<>>
    ELSE IF Len(ss) = 1 THEN Head(ss)
    ELSE Head(ss) \o sep \o JoinWith(Tail(ss), sep)

Range(s) == {s[i] : i \in 1..Len(s)}

(***************************************************************************)
(* class AnalysisType(Enum)                                                *)
(***************************************************************************)
AVG == "avg"
MAX == "max"
MIN == "min"
SUM == "sum"
VAR_POP == "var_pop"
STDDEV_POP == "stddev_pop"
COUNT == "count"
MEDIAN == "median"
QUARTILES == "quartiles"
PERCENTILES == "percentiles"
DISTINCT_COUNT == "distinct_count"
TOP_K == "top_k"
VALUE_DISTRIBUTION == "value_distribution"
LENGTH_ANALYSIS == "length_analysis"
PATTERN_ANALYSIS == "pattern_analysis"
DATE_RANGE == "date_range"
YEAR_ANALYSIS == "year_analysis"
MONTH_ANALYSIS == "month_analysis"
DAY_ANALYSIS == "day_analysis"
HOUR_ANALYSIS == "hour_analysis"
WEEKDAY_ANALYSIS == "weekday_analysis"
SEASONAL_ANALYSIS == "seasonal_analysis"
MISSING_VALUES == "missing_values"
DATA_QUALITY == "data_quality"
CORRELATION == "correlation"

AnalysisType ==
    { AVG, MAX, MIN, SUM, VAR_POP, STDDEV_POP, COUNT, MEDIAN, QUARTILES,
      PERCENTILES, DISTINCT_COUNT, TOP_K, VALUE_DISTRIBUTION, LENGTH_ANALYSIS,
      PATTERN_ANALYSIS, DATE_RANGE, YEAR_ANALYSIS, MONTH_ANALYSIS,
      DAY_ANALYSIS, HOUR_ANALYSIS, WEEKDAY_ANALYSIS, SEASONAL_ANALYSIS,
      MISSING_VALUES, DATA_QUALITY, CORRELATION }

(***************************************************************************)
(* SQLGenerator.SQL_TEMPLATES, each already formatted with the column.     *)
(***************************************************************************)
Fn(name, args) == <<name, "(">> \o args \o <<")">>

Agg(name, prefix, c) == Fn(name, <<c>>) \o <<"as", prefix \o c>>

Pct(p, prefix, c) ==
    Fn("PERCENTILE_CONT", <<p>>) \o <<"WITHIN", "GROUP">>
        \o <<"(", "ORDER", "BY", c, ")">> \o <<"as", prefix \o c>>

Extract(part, c) == Fn("EXTRACT", <<part, "FROM", c>>)

CountStar == Fn("COUNT", <<"*">>) \o <<"as", "count">>

SeasonCase(c) ==
    <<"CASE", "WHEN">> \o Extract("MONTH", c)
        \o <<"IN", "(", "12", ",", "1", ",", "2", ")", "THEN", "'Winter'", "WHEN">>
        \o Extract("MONTH", c)
        \o <<"IN", "(", "3", ",", "4", ",", "5", ")", "THEN", "'Spring'", "WHEN">>
        \o Extract("MONTH", c)
        \o <<"IN", "(", "6", ",", "7", ",", "8", ")", "THEN", "'Summer'">>
        \o <<"ELSE", "'Fall'", "END">>

SQL_TEMPLATES(c) ==
    [ t \in AnalysisType |->
        <<"SELECT">> \o
        CASE t = AVG -> Agg("AVG", "avg_", c)
          [] t = MAX -> Agg("MAX", "max_", c)
          [] t = MIN -> Agg("MIN", "min_", c)
          [] t = SUM -> Agg("SUM", "sum_", c)
          [] t = VAR_POP -> Agg("VAR_POP", "var_pop_", c)
          [] t = STDDEV_POP -> Agg("STDDEV_POP", "stddev_pop_", c)
          [] t = COUNT -> Agg("COUNT", "count_", c)
          [] t = MEDIAN -> Pct("0.5", "median_", c)
          [] t = QUARTILES ->
                Pct("0.25", "q1_", c) \o <<",">> \o Pct("0.5", "q2_", c)
                    \o <<",">> \o Pct("0.75", "q3_", c)
          [] t = PERCENTILES ->
                Pct("0.1", "p10_", c) \o <<",">> \o Pct("0.25", "p25_", c)
                    \o <<",">> \o Pct("0.5", "p50_", c)
                    \o <<",">> \o Pct("0.75", "p75_", c)
                    \o <<",">> \o Pct("0.9", "p90_", c)
          [] t = DISTINCT_COUNT ->
                Fn("COUNT", <<"DISTINCT", c>>) \o <<"as", "distinct_count_" \o c>>
          [] t = TOP_K -> <<c, ",">> \o CountStar
          [] t = VALUE_DISTRIBUTION -> <<c, ",">> \o CountStar
          [] t = LENGTH_ANALYSIS ->
                Fn("LENGTH", <<c>>) \o <<"as", "length", ",">> \o CountStar
          [] t = PATTERN_ANALYSIS -> <<c, ",">> \o CountStar
          [] t = DATE_RANGE ->
                Fn("MIN", <<c>>) \o <<"as", "min_date", ",">>
                    \o Fn("MAX", <<c>>) \o <<"as", "max_date">>
          [] t = YEAR_ANALYSIS ->
                Extract("YEAR", c) \o <<"as", "year", ",">> \o CountStar
          [] t = MONTH_ANALYSIS ->
                Extract("MONTH", c) \o <<"as", "month", ",">> \o CountStar
          [] t = DAY_ANALYSIS ->
                Extract("DAY", c) \o <<"as", "day", ",">> \o CountStar
          [] t = HOUR_ANALYSIS ->
                Extract("HOUR", c) \o <<"as", "hour", ",">> \o CountStar
          [] t = WEEKDAY_ANALYSIS ->
                Extract("DOW", c) \o <<"as", "weekday", ",">> \o CountStar
          [] t = SEASONAL_ANALYSIS ->
                SeasonCase(c) \o <<"as", "season", ",">> \o CountStar
          [] t = MISSING_VALUES ->
                Fn("COUNT", <<"*">>) \o <<"as", "total_count", ",">>
                    \o Fn("COUNT", <<c>>) \o <<"as", "non_null_count", ",">>
                    \o Fn("COUNT", <<"*">>) \o <<"-">> \o Fn("COUNT", <<c>>)
                    \o <<"as", "null_count">>
          [] t = DATA_QUALITY ->
                Fn("COUNT", <<"*">>) \o <<"as", "total_count", ",">>
                    \o Fn("COUNT", <<c>>) \o <<"as", "non_null_count", ",">>
                    \o Fn("COUNT", <<"DISTINCT", c>>) \o <<"as", "distinct_count">>
          [] t = CORRELATION ->
                Fn("CORR", <<c, ",", c>>) \o <<"as", "correlation">> ]

(***************************************************************************)
(* utils.py: the DuckDB keyword sets and the three type predicates.        *)
(* A type string is a sequence of one-character strings.                   *)
(***************************************************************************)
duckdb_numeric_types ==
    { <<"b", "i", "g", "i", "n", "t">>,
      <<"d", "e", "c">>,
      <<"d", "e", "c", "i", "m", "a", "l">>,
      <<"d", "o", "u", "b", "l", "e">>,
      <<"f", "l", "o", "a", "t">>,
      <<"f", "l", "o", "a", "t", "4">>,
      <<"f", "l", "o", "a", "t", "8">>,
      <<"h", "u", "g", "e", "i", "n", "t">>,
      <<"i", "n", "t">>,
      <<"i", "n", "t", "1">>,
      <<"i", "n", "t", "1", "2", "8">>,
      <<"i", "n", "t", "1", "6">>,
      <<"i", "n", "t", "2">>,
      <<"i", "n", "t", "3", "2">>,
      <<"i", "n", "t", "4">>,
      <<"i", "n", "t", "6", "4">>,
      <<"i", "n", "t", "8">>,
      <<"i", "n", "t", "e", "g", "e", "r">>,
      <<"i", "n", "t", "e", "g", "r", "a", "l">>,
      <<"l", "o", "n", "g">>,
      <<"n", "u", "m", "e", "r", "i", "c">>,
      <<"r", "e", "a", "l">>,
      <<"s", "h", "o", "r", "t">>,
      <<"s", "i", "g", "n", "e", "d">>,
      <<"s", "m", "a", "l", "l", "i", "n", "t">>,
      <<"t", "i", "n", "y", "i", "n", "t">>,
      <<"u", "b", "i", "g", "i", "n", "t">>,
      <<"u", "h", "u", "g", "e", "i", "n", "t">>,
      <<"u", "i", "n", "t", "1", "2", "8">>,
      <<"u", "i", "n", "t", "1", "6">>,
      <<"u", "i", "n", "t", "3", "2">>,
      <<"u", "i", "n", "t", "6", "4">>,
      <<"u", "i", "n", "t", "8">>,
      <<"u", "i", "n", "t", "e", "g", "e", "r">>,
      <<"u", "s", "m", "a", "l", "l", "i", "n", "t">>,
      <<"u", "t", "i", "n", "y", "i", "n", "t">>,
      <<"v", "a", "r", "i", "n", "t">> }

duckdb_text_types ==
    { <<"b", "p", "c", "h", "a", "r">>,
      <<"c", "h", "a", "r">>,
      <<"n", "v", "a", "r", "c", "h", "a", "r">>,
      <<"s", "t", "r", "i", "n", "g">>,
      <<"t", "e", "x", "t">>,
      <<"v", "a", "r", "c", "h", "a", "r">> }

duckdb_time_types ==
    { <<"d", "a", "t", "e">>,
      <<"d", "a", "t", "e", "t", "i", "m", "e">>,
      <<"t", "i", "m", "e">>,
      <<"t", "i", "m", "e", "s", "t", "a", "m", "p">>,
      <<"t", "i", "m", "e", "s", "t", "a", "m", "p", "_", "m", "s">>,
      <<"t", "i", "m", "e", "s", "t", "a", "m", "p", "_", "n", "s">>,
      <<"t", "i", "m", "e", "s", "t", "a", "m", "p", "_", "s">>,
      <<"t", "i", "m", "e", "s", "t", "a", "m", "p", "_", "u", "s">>,
      <<"t", "i", "m", "e", "s", "t", "a", "m", "p", "t", "z">>,
      <<"t", "i", "m", "e", "t", "z">>,
      <<"i", "n", "t", "e", "r", "v", "a", "l">> }

LowerAlpha ==
    <<"a", "b", "c", "d", "e", "f", "g", "h", "i", "j", "k", "l", "m",
      "n", "o", "p", "q", "r", "s", "t", "u", "v", "w", "x", "y", "z">>

UpperAlpha ==
    <<"A", "B", "C", "D", "E", "F", "G", "H", "I", "J", "K", "L", "M",
      "N", "O", "P", "Q", "R", "S", "T", "U", "V", "W", "X", "Y", "Z">>

\* str.lower() on one character
LowerChar(ch) ==
    IF \E i \in 1..26 : UpperAlpha[i] = ch
    THEN LowerAlpha[CHOOSE i \in 1..26 : UpperAlpha[i] = ch]
    ELSE ch

\* str.lower()
lower(s) == [i \in 1..Len(s) |-> LowerChar(s[i])]

\* s.split("(")[0]: the text before the first "(" (all of s if there is none)
SplitParen0(s) ==
    IF \E i \in 1..Len(s) : s[i] = "("
    THEN SubSeq(s, 1, (CHOOSE i \in 1..Len(s) :
                          s[i] = "(" /\ \A j \in 1..(i - 1) : s[j] # "(") - 1)
    ELSE s

is_duckdb_numeric_type(column_type) ==
    lower(SplitParen0(column_type)) \in duckdb_numeric_types

is_duckdb_text_type(column_type) == column_type \in duckdb_text_types

is_duckdb_time_type(column_type) == column_type \in duckdb_time_types

\* get_column_type_map: DESCRIBE reports (name, type); the type is lower-cased
get_column_type_map(described) ==
    [c \in DOMAIN described |-> lower(described[c])]

(***************************************************************************)
(* SQLGenerator.get_available_analysis_types                               *)
(***************************************************************************)
CatNumeric == "NUMERIC"
CatText == "TEXT"
CatTemporal == "TEMPORAL"
CatOther == "OTHER"

\* the if/elif chain of get_available_analysis_types, as a category
Category(column_type) ==
    IF is_duckdb_numeric_type(column_type) THEN CatNumeric
    ELSE IF is_duckdb_text_type(column_type) THEN CatText
    ELSE IF is_duckdb_time_type(column_type) THEN CatTemporal
    ELSE CatOther

\* variant: no fallback list for a column of no known category
AvailableForNoFallback(cat) ==
    CASE cat = CatNumeric ->
            <<AVG, MAX, MIN, SUM, VAR_POP, STDDEV_POP, COUNT, MEDIAN,
              QUARTILES, PERCENTILES>>
      [] cat = CatText ->
            <<COUNT, DISTINCT_COUNT, TOP_K, VALUE_DISTRIBUTION,
              LENGTH_ANALYSIS, PATTERN_ANALYSIS>>
      [] cat = CatTemporal ->
            <<COUNT, DATE_RANGE, YEAR_ANALYSIS, MONTH_ANALYSIS, DAY_ANALYSIS,
              HOUR_ANALYSIS, WEEKDAY_ANALYSIS, SEASONAL_ANALYSIS>>
      [] cat = CatOther -> <<COUNT>>

AvailableFor(cat) ==
    CASE cat = CatNumeric ->
            <<AVG, MAX, MIN, SUM, VAR_POP, STDDEV_POP, COUNT, MEDIAN,
              QUARTILES, PERCENTILES>>
      [] cat = CatText ->
            <<COUNT, DISTINCT_COUNT, TOP_K, VALUE_DISTRIBUTION,
              LENGTH_ANALYSIS, PATTERN_ANALYSIS>>
      [] cat = CatTemporal ->
            <<COUNT, DATE_RANGE, YEAR_ANALYSIS, MONTH_ANALYSIS, DAY_ANALYSIS,
              HOUR_ANALYSIS, WEEKDAY_ANALYSIS, SEASONAL_ANALYSIS>>
      [] cat = CatOther -> <<COUNT, MISSING_VALUES, DATA_QUALITY>>

get_available_analysis_types(types, column_name) ==
    IF column_name \notin DOMAIN types THEN <<>>
    ELSE AvailableFor(Category(types[column_name]))

(***************************************************************************)
(* Optional arguments: None is the empty sequence, a value x is <<x>>.     *)
(***************************************************************************)
Some(x) == <<x>>

IsNone(o) == o = <<>>

Get(o) == o[1]

\* Python truthiness of an Optional[List] / Optional[Dict]
Truthy(o) == ~IsNone(o) /\ Get(o) # <<>>

\* Python truthiness of an Optional[str]
TruthyStr(o) == ~IsNone(o) /\ Get(o) # ""

(***************************************************************************)
(* Filter values and their f-string rendering.                             *)
(***************************************************************************)
IntVal(n) == [t |-> "int", v |-> n]

StrVal(s) == [t |-> "str", v |-> s]

ListVal(l) == [t |-> "list", v |-> l]

\* str() of a value: an int bare, a str as is, a list as [a, b, ...]
Format(val) ==
    CASE val.t = "int" -> <<ToString(val.v)>>
      [] val.t = "str" -> <<val.v>>
      [] val.t = "list" ->
            <<"[">> \o JoinWith([i \in 1..Len(val.v) |-> <<ToString(val.v[i])>>], <<",">>)
                \o <<"]">>

\* the three shapes of a where_conditions entry
TupleCond(op, val) == [kind |-> "tuple", op |-> op, val |-> val]

StrCond(text) == [kind |-> "str", text |-> text]

ValueCond(val) == [kind |-> "value", val |-> val]

(***************************************************************************)
(* SQLGenerator clause builders                                            *)
(***************************************************************************)
\* variant: the two general-purpose operations have no template
HasTemplateNumericTextTemporal(analysis_type) ==
    analysis_type \in AnalysisType \ {MISSING_VALUES, DATA_QUALITY}

\* analysis_type in self.SQL_TEMPLATES (line 345)
HasTemplate(analysis_type) == analysis_type \in DOMAIN SQL_TEMPLATES("")

_build_select_clause(column_name, analysis_type) ==
    SQL_TEMPLATES(column_name)[analysis_type]

\* variant: a string value is formatted like any other value, without quotes
RenderConditionBare(col, condition) ==
    CASE condition.kind = "tuple" -> <<col, condition.op>> \o Format(condition.val)
      [] condition.kind = "str" -> <<col>> \o condition.text
      [] condition.kind = "value" -> <<col, "=">> \o Format(condition.val)

\* one iteration of the loop of _build_where_clause
RenderCondition(col, condition) ==
    CASE condition.kind = "tuple" ->
            <<col, condition.op>> \o
                (IF condition.val.t = "str"
                 THEN <<"'" \o condition.val.v \o "'">>
                 ELSE Format(condition.val))
      [] condition.kind = "str" -> <<col>> \o condition.text
      [] condition.kind = "value" -> <<col, "=">> \o Format(condition.val)

_build_where_clause(where_conditions) ==
    IF ~Truthy(where_conditions) THEN <<>>
    ELSE LET items == Get(where_conditions)
             conditions ==
                 [i \in 1..Len(items) |-> RenderCondition(items[i].col, items[i].cond)]
         IN  <<"WHERE">> \o JoinWith(conditions, <<"AND">>)

CommaList(names) == JoinWith([i \in 1..Len(names) |-> <<names[i]>>], <<",">>)

_build_group_by_clause(group_by_columns) ==
    IF ~Truthy(group_by_columns) THEN <<>>
    ELSE <<"GROUP", "BY">> \o CommaList(Get(group_by_columns))

FrequencyTypes ==
    {TOP_K, VALUE_DISTRIBUTION, LENGTH_ANALYSIS, PATTERN_ANALYSIS}

BucketTypes ==
    {YEAR_ANALYSIS, MONTH_ANALYSIS, DAY_ANALYSIS, HOUR_ANALYSIS,
     WEEKDAY_ANALYSIS, SEASONAL_ANALYSIS}

\* variant: only the frequency operations are ordered, the temporal buckets are not
_build_order_by_clause_frequency_only(column_name, analysis_type) ==
    IF analysis_type \in FrequencyTypes THEN <<"ORDER", "BY", "count", "DESC">>
    ELSE <<>>

_build_order_by_clause(column_name, analysis_type) ==
    IF analysis_type \in FrequencyTypes THEN <<"ORDER", "BY", "count", "DESC">>
    ELSE IF analysis_type \in BucketTypes THEN <<"ORDER", "BY", "count", "DESC">>
    ELSE <<>>

\* variant: the top-k value is consulted before the explicit limit
_build_limit_clause_topk_first(limit, analysis_type, top_k) ==
    IF analysis_type = TOP_K THEN <<"LIMIT", ToString(top_k)>>
    ELSE IF ~IsNone(limit) THEN <<"LIMIT", ToString(Get(limit))>>
    ELSE IF analysis_type \in {VALUE_DISTRIBUTION, LENGTH_ANALYSIS, PATTERN_ANALYSIS}
         THEN <<"LIMIT", ToString(top_k)>>
    ELSE <<>>

_build_limit_clause(limit, analysis_type, top_k) ==
    IF ~IsNone(limit) THEN <<"LIMIT", ToString(Get(limit))>>
    ELSE IF analysis_type = TOP_K THEN <<"LIMIT", ToString(top_k)>>
    ELSE IF analysis_type \in {VALUE_DISTRIBUTION, LENGTH_ANALYSIS, PATTERN_ANALYSIS}
         THEN <<"LIMIT", ToString(top_k)>>
    ELSE <<>>

FromClause(tn) == <<"FROM", tn>>

NotNullGuard(column_name) == <<column_name, "IS", "NOT", "NULL">>

\* the list tested at lines 236-247 and again at 254-265
SelfGroupingTypes == FrequencyTypes \cup BucketTypes

\* variant: the guard is injected for the frequency operations only
GuardedWhereFrequencyOnly(column_name, analysis_type, where_conditions) ==
    LET where_clause == _build_where_clause(where_conditions)
    IN  IF analysis_type \in FrequencyTypes
        THEN IF where_clause # <<>>
             THEN where_clause \o <<"AND">> \o NotNullGuard(column_name)
             ELSE <<"WHERE">> \o NotNullGuard(column_name)
        ELSE where_clause

\* where_clause after lines 234-251
GuardedWhere(column_name, analysis_type, where_conditions) ==
    LET where_clause == _build_where_clause(where_conditions)
    IN  IF analysis_type \in SelfGroupingTypes
        THEN IF where_clause # <<>>
             THEN where_clause \o <<"AND">> \o NotNullGuard(column_name)
             ELSE <<"WHERE">> \o NotNullGuard(column_name)
        ELSE where_clause

\* analysis_type.value.replace("_analysis", "").upper()
ExtractPart(analysis_type) ==
    CASE analysis_type = YEAR_ANALYSIS -> "YEAR"
      [] analysis_type = MONTH_ANALYSIS -> "MONTH"
      [] analysis_type = DAY_ANALYSIS -> "DAY"
      [] analysis_type = HOUR_ANALYSIS -> "HOUR"

\* group_by_clause after lines 253-285
GroupByClause(column_name, analysis_type, group_by_columns) ==
    IF analysis_type \in SelfGroupingTypes
    THEN <<"GROUP", "BY">> \o
         (IF analysis_type = LENGTH_ANALYSIS THEN Fn("LENGTH", <<column_name>>)
          ELSE IF analysis_type = SEASONAL_ANALYSIS THEN SeasonCase(column_name)
          ELSE IF analysis_type \in {YEAR_ANALYSIS, MONTH_ANALYSIS, DAY_ANALYSIS, HOUR_ANALYSIS}
               THEN Extract(ExtractPart(analysis_type), column_name)
          ELSE IF analysis_type = WEEKDAY_ANALYSIS THEN Extract("DOW", column_name)
          ELSE <<column_name>>)
    ELSE IF Truthy(group_by_columns) THEN _build_group_by_clause(group_by_columns)
    ELSE <<>>

\* str.replace("SELECT ", ""): every SELECT keyword of the fragment is dropped
StripSelect(tokens) == SelectSeq(tokens, LAMBDA t : t # "SELECT")

\* variant: the grouping keys are listed after the operation's fragment
SelectClauseKeysLast(column_name, analysis_type, group_by_columns) ==
    IF Truthy(group_by_columns)
    THEN LET base_select == _build_select_clause(column_name, analysis_type)
         IN  <<"SELECT">> \o StripSelect(base_select) \o <<",">>
                 \o CommaList(Get(group_by_columns))
    ELSE _build_select_clause(column_name, analysis_type)

\* select_clause after lines 221-230
SelectClause(column_name, analysis_type, group_by_columns) ==
    IF Truthy(group_by_columns)
    THEN LET base_select == _build_select_clause(column_name, analysis_type)
         IN  IF "SELECT" \in Range(base_select)
             THEN <<"SELECT">> \o CommaList(Get(group_by_columns)) \o <<",">>
                      \o StripSelect(base_select)
             ELSE <<"SELECT">> \o CommaList(Get(group_by_columns)) \o <<",">>
                      \o base_select
    ELSE _build_select_clause(column_name, analysis_type)

Ok(sql) == [ok |-> TRUE, sql |-> sql]

Raise(error) == [ok |-> FALSE, error |-> error]

\* variant: the second column is guarded only when the caller gave no filter
_generate_correlation_sql_one_guard(tn, column1, column2, where_conditions) ==
    LET select_clause == <<"SELECT">> \o Fn("CORR", <<column1, ",", column2>>)
                             \o <<"as", "correlation">>
        where_clause == _build_where_clause(where_conditions)
        guards == NotNullGuard(column1) \o <<"AND">> \o NotNullGuard(column2)
    IN  select_clause \o FromClause(tn) \o
            (IF where_clause # <<>> THEN where_clause \o <<"AND">> \o NotNullGuard(column1)
             ELSE <<"WHERE">> \o guards)

_generate_correlation_sql(tn, column1, column2, where_conditions) ==
    LET select_clause == <<"SELECT">> \o Fn("CORR", <<column1, ",", column2>>)
                             \o <<"as", "correlation">>
        where_clause == _build_where_clause(where_conditions)
        guards == NotNullGuard(column1) \o <<"AND">> \o NotNullGuard(column2)
    IN  select_clause \o FromClause(tn) \o
            (IF where_clause # <<>> THEN where_clause \o <<"AND">> \o guards
             ELSE <<"WHERE">> \o guards)

\* variant: the LIMIT clause is appended before the ORDER BY clause
generate_sql_limit_before_order(tn, column_name, analysis_type, group_by_columns, where_conditions, limit, top_k, second_column) ==
    IF analysis_type = CORRELATION /\ TruthyStr(second_column)
    THEN Ok(_generate_correlation_sql(tn, column_name, Get(second_column),
                                      where_conditions))
    ELSE IF ~HasTemplate(analysis_type)
    THEN Raise("ValueError: Unsupported analysis type")
    ELSE Ok(SelectClause(column_name, analysis_type, group_by_columns)
            \o FromClause(tn)
            \o GuardedWhere(column_name, analysis_type, where_conditions)
            \o GroupByClause(column_name, analysis_type, group_by_columns)
            \o _build_limit_clause(limit, analysis_type, top_k)
            \o _build_order_by_clause(column_name, analysis_type))

generate_sql(tn, column_name, analysis_type, group_by_columns, where_conditions, limit, top_k, second_column) ==
    IF analysis_type = CORRELATION /\ TruthyStr(second_column)
    THEN Ok(_generate_correlation_sql(tn, column_name, Get(second_column),
                                      where_conditions))
    ELSE IF ~HasTemplate(analysis_type)
    THEN Raise("ValueError: Unsupported analysis type")
    ELSE Ok(SelectClause(column_name, analysis_type, group_by_columns)
            \o FromClause(tn)
            \o GuardedWhere(column_name, analysis_type, where_conditions)
            \o GroupByClause(column_name, analysis_type, group_by_columns)
            \o _build_order_by_clause(column_name, analysis_type)
            \o _build_limit_clause(limit, analysis_type, top_k))

\* generate_multi_column_sql: analysis_config is an ordered dict of
\* (column, analysis type) pairs
generate_multi_column_sql(tn, analysis_config, group_by_columns, where_conditions) ==
    IF \E i \in 1..Len(analysis_config) : ~HasTemplate(analysis_config[i].type)
    THEN Raise("ValueError: Unsupported analysis type")
    ELSE LET select_parts ==
                 [i \in 1..Len(analysis_config) |->
                     StripSelect(_build_select_clause(analysis_config[i].col,
                                                      analysis_config[i].type))]
             select_clause ==
                 IF Truthy(group_by_columns)
                 THEN <<"SELECT">> \o CommaList(Get(group_by_columns)) \o <<",">>
                          \o JoinWith(select_parts, <<",">>)
                 ELSE <<"SELECT">> \o JoinWith(select_parts, <<",">>)
         IN  Ok(select_clause \o FromClause(tn)
                \o _build_where_clause(where_conditions)
                \o _build_group_by_clause(group_by_columns))

\* the keys of ANALYSIS_DESCRIPTIONS
DescriptionKeys == AnalysisType

\* the description text is not modelled: only which entry of the table it
\* is, or that it is the fallback built from the operation's value
_get_analysis_description(analysis_type) ==
    IF analysis_type \in DescriptionKeys THEN <<"ANALYSIS_DESCRIPTIONS", analysis_type>>
    ELSE <<"fallback", analysis_type>>

\* the loop of get_analysis_examples from position i of available_types
RECURSIVE ExamplesFrom(_, _, _, _)
ExamplesFrom(tn, column_name, available_types, i) ==
    IF i > Len(available_types) THEN <<>>
    ELSE LET analysis_type == available_types[i]
             sql == generate_sql(tn, column_name, analysis_type, <<>>, <<>>, <<>>, 10, <<>>)
         IN  (IF sql.ok
              THEN <<[type |-> analysis_type,
                      description |-> _get_analysis_description(analysis_type),
                      sql |-> sql.sql]>>
              ELSE <<>>)
             \o ExamplesFrom(tn, column_name, available_types, i + 1)

get_analysis_examples(tn, types, column_name) ==
    ExamplesFrom(tn, column_name, get_available_analysis_types(types, column_name), 1)

(***************************************************************************)
(* Bounds and input sets.                                                  *)
(***************************************************************************)
MaxGroupBy == 2

MaxFilters == 2

DefaultTopK == 10

\* what DESCRIBE reports for the table the generator is constructed on
Described ==
    [ amount |-> <<"D", "E", "C", "I", "M", "A", "L", "(", "1", "0", ",", "2", ")">>,
      name   |-> <<"V", "A", "R", "C", "H", "A", "R">>,
      ts     |-> <<"T", "I", "M", "E", "S", "T", "A", "M", "P">>,
      doc    |-> <<"J", "S", "O", "N">> ]

ColumnInputs == {"amount", "name", "ts", "doc"}

TypeInputs == AnalysisType \cup {"invalid_analysis_type"}

GroupCols == <<"dept", "region", "city">>

GroupByInputs ==
    {<<>>} \cup {Some(SubSeq(GroupCols, 1, n)) : n \in 0..MaxGroupBy}

FilterCols == <<"age", "dept", "city", "region">>

SimpleConds == {TupleCond(">", IntVal(30)), TupleCond("=", StrVal("Eng"))}

Conds ==
    SimpleConds \cup
    { StrCond(<<">", "30">>),
      ValueCond(IntVal(30)),
      TupleCond("BETWEEN", ListVal(<<25, 35>>)),
      TupleCond("BETWEEN", ListVal(<<25, 35, 45>>)),
      TupleCond("BETWEEN", IntVal(25)),
      TupleCond(">", ListVal(<<25, 35>>)) }

\* dicts of n entries on the first n filter columns, conditions from cs
FilterDicts(n, cs) ==
    { [i \in 1..n |-> [col |-> FilterCols[i], cond |-> f[i]]] : f \in [1..n -> cs] }

\* dicts of n entries in which the two simple conditions alternate
AlternatingDicts(n) ==
    { [i \in 1..n |-> [col |-> FilterCols[i],
                       cond |-> IF i % 2 = 1 THEN p[1] ELSE p[2]]] :
        p \in {q \in SimpleConds \X SimpleConds : q[1] # q[2]} }

\* the filters every operation is compiled with: none, an empty dict, and
\* the well-formed dicts of 2..MaxFilters entries
CoreWhereInputs ==
    {<<>>, Some(<<>>)}
        \cup UNION {{Some(d) : d \in AlternatingDicts(n)} : n \in 2..MaxFilters}

WhereInputs == CoreWhereInputs \cup {Some(d) : d \in FilterDicts(1, Conds)}

\* the calls every one-entry filter shape is compiled with
ProbeColumns == {"amount", "name"}

ProbeTypes == {AVG, TOP_K, YEAR_ANALYSIS, CORRELATION, "invalid_analysis_type"}

LimitInputs == {<<>>, Some(3)}

TopKInputs == {DefaultTopK, 7}

SecondInputs == {<<>>, Some(""), Some("rating")}

ConfigInputs ==
    { <<[col |-> "amount", type |-> SUM]>>,
      <<[col |-> "amount", type |-> AVG], [col |-> "name", type |-> COUNT]>>,
      <<[col |-> "name", type |-> TOP_K], [col |-> "amount", type |-> AVG]>>,
      <<[col |-> "ts", type |-> YEAR_ANALYSIS], [col |-> "amount", type |-> MAX]>>,
      <<[col |-> "amount", type |-> MIN], [col |-> "doc", type |-> "invalid_analysis_type"]>> }

(***************************************************************************)
(* State machine.  table_name and column_types are the generator's fields; *)
(* call and result are the last call and what it returned; memo remembers  *)
(* one earlier call with its result (an observer, not program state);      *)
(* sessions is the session table of the API service; engine_log is the     *)
(* statements the call in progress has sent to the DuckDB connection for   *)
(* execution, in order; db_engine is the fields of a DBEngine; issued is   *)
(* the task ids create_session has handed out (uuid4 does not repeat one). *)
(***************************************************************************)
\* no call in progress: the caller holds no pending result
Idle == [fn |-> "idle"]

\* DBEngine.__init__ (lines 31-33): no table, no executor, no generator
NewDBEngine == [current_table |-> <<>>, executor |-> <<>>, generator |-> <<>>]

Init ==
    /\ table_name = "t"
    /\ column_types = get_column_type_map(Described)
    /\ call = Idle
    /\ result = <<>>
    /\ memo = <<>>
    /\ sessions = <<>>
    /\ engine_log = <<>>
    /\ db_engine = NewDBEngine
    /\ issued = {}

\* variant: the call aliases the table in place on the generator
CallGenerateSqlAliasing(c, t, g, w, l, k, s) ==
    /\ call' = [fn |-> "generate_sql", column_name |-> c, analysis_type |-> t,
                group_by_columns |-> g, where_conditions |-> w, limit |-> l,
                top_k |-> k, second_column |-> s]
    /\ result' = generate_sql(table_name, c, t, g, w, l, k, s)
    /\ table_name' = IF table_name = "t" THEN "t_alias" ELSE table_name
    /\ UNCHANGED column_types

CallGenerateSql(c, t, g, w, l, k, s) ==
    /\ call' = [fn |-> "generate_sql", column_name |-> c, analysis_type |-> t,
                group_by_columns |-> g, where_conditions |-> w, limit |-> l,
                top_k |-> k, second_column |-> s]
    /\ result' = generate_sql(table_name, c, t, g, w, l, k, s)
    /\ UNCHANGED <<table_name, column_types>>

CallGenerateMultiColumnSql(cfg, g, w) ==
    /\ call' = [fn |-> "generate_multi_column_sql", analysis_config |-> cfg,
                group_by_columns |-> g, where_conditions |-> w]
    /\ result' = generate_multi_column_sql(table_name, cfg, g, w)
    /\ UNCHANGED <<table_name, column_types>>

GenerateSql ==
    /\ call = Idle
    /\ \E c \in ColumnInputs, t \in TypeInputs, g \in GroupByInputs,
          w \in WhereInputs, l \in LimitInputs, k \in TopKInputs,
          s \in SecondInputs :
            /\ w \in CoreWhereInputs \/ (c \in ProbeColumns /\ t \in ProbeTypes)
            /\ CallGenerateSql(c, t, g, w, l, k, s)
    /\ UNCHANGED <<memo, sessions, engine_log, db_engine, issued>>

GenerateMultiColumnSql ==
    /\ call = Idle
    /\ \E cfg \in ConfigInputs, g \in GroupByInputs, w \in WhereInputs :
            CallGenerateMultiColumnSql(cfg, g, w)
    /\ UNCHANGED <<memo, sessions, engine_log, db_engine, issued>>

GetAvailableAnalysisTypes ==
    /\ call = Idle
    /\ \E c \in DOMAIN column_types \cup {"nonexistent"} :
          /\ call' = [fn |-> "get_available_analysis_types", column_name |-> c]
          /\ result' = get_available_analysis_types(column_types, c)
    /\ UNCHANGED <<table_name, column_types, memo, sessions, engine_log, db_engine, issued>>

GetAnalysisExamples ==
    /\ call = Idle
    /\ \E c \in DOMAIN column_types \cup {"nonexistent"} :
          /\ call' = [fn |-> "get_analysis_examples", column_name |-> c]
          /\ result' = get_analysis_examples(table_name, column_types, c)
    /\ UNCHANGED <<table_name, column_types, memo, sessions, engine_log, db_engine, issued>>

\* the clause builder called on its own, as the service does
BuildWhereClause ==
    /\ call = Idle
    /\ \E w \in WhereInputs :
          /\ call' = [fn |-> "_build_where_clause", where_conditions |-> w]
          /\ result' = _build_where_clause(w)
    /\ UNCHANGED <<table_name, column_types, memo, sessions, engine_log, db_engine, issued>>

(***************************************************************************)
(* SQLExecutor: compile, run on the engine, wrap the outcome in an         *)
(* envelope.  None is <<>>; the engine knows the generator's table only,   *)
(* and whether it can run a compiled statement is not decided here.        *)
(***************************************************************************)
\* AnalysisType(value): the member with that value, or ValueError
IsEnumValue(value) == value \in AnalysisType

\* the early return of lines 123-129 and 177-183 (the message is the fixed
\* text followed by the offending name)
UnsupportedEnvelope(analysis_type) ==
    [success |-> FALSE, result |-> <<>>, sql |-> <<>>,
     error |-> Some(<<"unsupported analysis type", analysis_type>>)]

\* variant: the handler reports the statement it had compiled
ExceptEnvelopeWithSql(sql, e) ==
    [success |-> FALSE, result |-> <<>>, sql |-> sql, error |-> Some(e)]

\* the handler of lines 145-146 and 197-198; sql is the local it does not use
ExceptEnvelope(sql, e) ==
    [success |-> FALSE, result |-> <<>>, sql |-> <<>>, error |-> Some(e)]

SuccessEnvelope(df, sql) ==
    [success |-> TRUE, result |-> Some(df), sql |-> Some(sql), error |-> <<>>]

\* SQLGenerator(conn, table_name): DESCRIBE raises on a table the engine lacks
GeneratorConstructs(tn) == tn = table_name

\* variant: a statement the engine rejects is sent a second time
execute_with_retry(sql, engine_ok) ==
    [ok |-> engine_ok, sent |-> IF engine_ok THEN <<sql>> ELSE <<sql, sql>>]

\* SQLExecutor.execute (lines 22-39): one conn.execute; the engine's
\* exception is logged and re-raised.  sent is what went to the connection
execute(sql, engine_ok) == [ok |-> engine_ok, sent |-> <<sql>>]

execute_analysis(tn, column_name, analysis_type, group_by_columns, where_conditions, limit, top_k, second_column, engine_ok) ==
    IF ~GeneratorConstructs(tn) THEN ExceptEnvelope(<<>>, <<"CatalogException">>)
    ELSE IF ~IsEnumValue(analysis_type) THEN UnsupportedEnvelope(analysis_type)
    ELSE LET sql == generate_sql(tn, column_name, analysis_type, group_by_columns,
                                 where_conditions, limit, top_k, second_column)
         IN  IF ~sql.ok THEN ExceptEnvelope(<<>>, <<sql.error>>)
             ELSE IF ~execute(sql.sql, engine_ok).ok
             THEN ExceptEnvelope(Some(sql.sql), <<"engine error">>)
             ELSE SuccessEnvelope("DataFrame", sql.sql)

execute_multi_column_analysis(tn, analysis_config, group_by_columns, where_conditions, engine_ok) ==
    IF \E i \in 1..Len(analysis_config) : ~IsEnumValue(analysis_config[i].type)
    THEN UnsupportedEnvelope(
             analysis_config[CHOOSE i \in 1..Len(analysis_config) :
                                 /\ ~IsEnumValue(analysis_config[i].type)
                                 /\ \A j \in 1..(i - 1) :
                                       IsEnumValue(analysis_config[j].type)].type)
    ELSE IF ~GeneratorConstructs(tn) THEN ExceptEnvelope(<<>>, <<"CatalogException">>)
    ELSE LET sql == generate_multi_column_sql(tn, analysis_config, group_by_columns,
                                              where_conditions)
         IN  IF ~sql.ok THEN ExceptEnvelope(<<>>, <<sql.error>>)
             ELSE IF ~execute(sql.sql, engine_ok).ok
             THEN ExceptEnvelope(Some(sql.sql), <<"engine error">>)
             ELSE SuccessEnvelope("DataFrame", sql.sql)

\* the statements execute_analysis hands to execute (line 141), in order
execute_analysis_sent(tn, column_name, analysis_type, group_by_columns, where_conditions, limit, top_k, second_column, engine_ok) ==
    IF ~GeneratorConstructs(tn) \/ ~IsEnumValue(analysis_type) THEN <<>>
    ELSE LET sql == generate_sql(tn, column_name, analysis_type, group_by_columns,
                                 where_conditions, limit, top_k, second_column)
         IN  IF ~sql.ok THEN <<>> ELSE execute(sql.sql, engine_ok).sent

\* the statements execute_multi_column_analysis hands to execute (line 193)
execute_multi_column_analysis_sent(tn, analysis_config, group_by_columns, where_conditions, engine_ok) ==
    IF \E i \in 1..Len(analysis_config) : ~IsEnumValue(analysis_config[i].type) THEN <<>>
    ELSE IF ~GeneratorConstructs(tn) THEN <<>>
    ELSE LET sql == generate_multi_column_sql(tn, analysis_config, group_by_columns,
                                              where_conditions)
         IN  IF ~sql.ok THEN <<>> ELSE execute(sql.sql, engine_ok).sent

ExecutorTables == {"t", "missing"}

ExecutorTypes ==
    {AVG, TOP_K, YEAR_ANALYSIS, CORRELATION, "AVG", "Avg", "invalid_analysis_type"}

ExecutorGroupBy == {<<>>, Some(<<"dept">>)}

ExecutorWhere == {<<>>} \cup {Some(d) : d \in FilterDicts(1, SimpleConds)}

ExecutorSecond == {<<>>, Some("rating")}

ExecutorConfigs ==
    { <<[col |-> "amount", type |-> AVG], [col |-> "name", type |-> COUNT]>>,
      <<[col |-> "amount", type |-> AVG], [col |-> "name", type |-> "invalid_type"]>>,
      <<[col |-> "name", type |-> "COUNT"], [col |-> "amount", type |-> "invalid_type"]>> }

ExecutorExecuteAnalysis ==
    /\ call = Idle
    /\ \E tn \in ExecutorTables, c \in {"amount", "name"}, t \in ExecutorTypes,
          g \in ExecutorGroupBy, w \in ExecutorWhere, l \in LimitInputs,
          s \in ExecutorSecond, engine_ok \in BOOLEAN :
          /\ call' = [fn |-> "SQLExecutor.execute_analysis", table_name |-> tn,
                      column_name |-> c, analysis_type |-> t, group_by_columns |-> g,
                      where_conditions |-> w, limit |-> l, top_k |-> DefaultTopK,
                      second_column |-> s]
          /\ result' = execute_analysis(tn, c, t, g, w, l, DefaultTopK, s, engine_ok)
          /\ engine_log' = execute_analysis_sent(tn, c, t, g, w, l, DefaultTopK, s,
                                                 engine_ok)
    /\ UNCHANGED <<table_name, column_types, memo, sessions, db_engine, issued>>

ExecutorExecuteMultiColumnAnalysis ==
    /\ call = Idle
    /\ \E tn \in ExecutorTables, cfg \in ExecutorConfigs, g \in ExecutorGroupBy,
          w \in ExecutorWhere, engine_ok \in BOOLEAN :
          /\ call' = [fn |-> "SQLExecutor.execute_multi_column_analysis",
                      table_name |-> tn, analysis_config |-> cfg,
                      group_by_columns |-> g, where_conditions |-> w]
          /\ result' = execute_multi_column_analysis(tn, cfg, g, w, engine_ok)
          /\ engine_log' = execute_multi_column_analysis_sent(tn, cfg, g, w, engine_ok)
    /\ UNCHANGED <<table_name, column_types, memo, sessions, db_engine, issued>>

\* the caller takes the returned value; the generator is ready for the next call
Return ==
    /\ call # Idle
    /\ call' = Idle
    /\ result' = <<>>
    /\ engine_log' = <<>>
    /\ UNCHANGED <<table_name, column_types, memo, sessions, db_engine, issued>>

Next ==
    \/ GenerateSql
    \/ GenerateMultiColumnSql
    \/ GetAvailableAnalysisTypes
    \/ GetAnalysisExamples
    \/ BuildWhereClause
    \/ ExecutorExecuteAnalysis
    \/ ExecutorExecuteMultiColumnAnalysis
    \/ Return

Spec == Init /\ [][Next]_vars

(***************************************************************************)
(* Second specification: the type predicates on every spelling of every    *)
(* keyword, and generators constructed on tables of one column "c" whose   *)
(* described type ranges over DescribedTypes.                              *)
(***************************************************************************)
\* str.upper()
UpperChar(ch) ==
    IF \E i \in 1..26 : LowerAlpha[i] = ch
    THEN UpperAlpha[CHOOSE i \in 1..26 : LowerAlpha[i] = ch]
    ELSE ch

upper(s) == [i \in 1..Len(s) |-> UpperChar(s[i])]

Capitalized(s) == [i \in 1..Len(s) |-> IF i = 1 THEN UpperChar(s[i]) ELSE s[i]]

Parameterized(s) == s \o <<"(", "1", "0", ")">>

Keywords == duckdb_numeric_types \cup duckdb_text_types \cup duckdb_time_types

UnknownTypes ==
    { <<"j", "s", "o", "n">>,
      <<"b", "o", "o", "l", "e", "a", "n">>,
      <<"b", "l", "o", "b">> }

Spellings(k) ==
    {k, upper(k), Capitalized(k), Parameterized(k), Parameterized(upper(k))}

RawTypes == UNION {Spellings(k) : k \in Keywords \cup UnknownTypes}

DescribedTypes ==
    UNION {Spellings(k) :
              k \in { <<"d", "e", "c", "i", "m", "a", "l">>,
                      <<"h", "u", "g", "e", "i", "n", "t">>,
                      <<"v", "a", "r", "c", "h", "a", "r">>,
                      <<"d", "a", "t", "e">>,
                      <<"j", "s", "o", "n">>,
                      <<"b", "o", "o", "l", "e", "a", "n">> }}

InitTypes ==
    /\ table_name = "t"
    /\ \E raw \in DescribedTypes :
          column_types = get_column_type_map([c \in {"c"} |-> raw])
    /\ call = Idle
    /\ result = <<>>
    /\ memo = <<>>
    /\ sessions = <<>>
    /\ engine_log = <<>>
    /\ db_engine = NewDBEngine
    /\ issued = {}

IsDuckdbNumericType ==
    /\ call = Idle
    /\ \E ty \in RawTypes :
          /\ call' = [fn |-> "is_duckdb_numeric_type", column_type |-> ty]
          /\ result' = is_duckdb_numeric_type(ty)
    /\ UNCHANGED <<table_name, column_types, memo, sessions, engine_log, db_engine, issued>>

IsDuckdbTextType ==
    /\ call = Idle
    /\ \E ty \in RawTypes :
          /\ call' = [fn |-> "is_duckdb_text_type", column_type |-> ty]
          /\ result' = is_duckdb_text_type(ty)
    /\ UNCHANGED <<table_name, column_types, memo, sessions, engine_log, db_engine, issued>>

IsDuckdbTimeType ==
    /\ call = Idle
    /\ \E ty \in RawTypes :
          /\ call' = [fn |-> "is_duckdb_time_type", column_type |-> ty]
          /\ result' = is_duckdb_time_type(ty)
    /\ UNCHANGED <<table_name, column_types, memo, sessions, engine_log, db_engine, issued>>

\* the list of lines 228-235
DefaultAvgTypes ==
    { <<"I", "N", "T", "E", "G", "E", "R">>,
      <<"B", "I", "G", "I", "N", "T">>,
      <<"D", "O", "U", "B", "L", "E">>,
      <<"F", "L", "O", "A", "T">>,
      <<"R", "E", "A", "L">>,
      <<"D", "E", "C", "I", "M", "A", "L">> }

\* ExcelAnalyzer.get_default_analysis on an analyzer whose current table has
\* the columns of types: the lower-cased type (or "varchar" for a column the
\* table lacks) is upper-cased and looked up in the list; the two elif
\* branches and the fall-through all return "count"
get_default_analysis(types, column) ==
    LET col_type == IF column \in DOMAIN types THEN types[column]
                    ELSE <<"v", "a", "r", "c", "h", "a", "r">>
        col_type_upper == upper(col_type)
    IN  IF col_type_upper \in DefaultAvgTypes THEN "avg" ELSE "count"

GetDefaultAnalysis ==
    /\ call = Idle
    /\ \E c \in DOMAIN column_types \cup {"nonexistent"} :
          /\ call' = [fn |-> "get_default_analysis", column_name |-> c]
          /\ result' = get_default_analysis(column_types, c)
    /\ UNCHANGED <<table_name, column_types, memo, sessions, engine_log, db_engine, issued>>

NumericRuleKeys ==
    { <<"I", "N", "T", "E", "G", "E", "R">>,
      <<"B", "I", "G", "I", "N", "T">>,
      <<"D", "O", "U", "B", "L", "E">>,
      <<"F", "L", "O", "A", "T">>,
      <<"R", "E", "A", "L">>,
      <<"D", "E", "C", "I", "M", "A", "L">> }

TextRuleKeys ==
    { <<"V", "A", "R", "C", "H", "A", "R">>,
      <<"T", "E", "X", "T">>,
      <<"S", "T", "R", "I", "N", "G">> }

TimeRuleKeys ==
    { <<"T", "I", "M", "E", "S", "T", "A", "M", "P">>,
      <<"T", "I", "M", "E", "S", "T", "A", "M", "P", "_", "N", "S">> }

\* self.analysis_rules (lines 68-173) as .get(key, ["count"]): the lists hold
\* the operations' values
analysis_rules(col_type_upper) ==
    IF col_type_upper \in NumericRuleKeys
    THEN <<SUM, AVG, MAX, MIN, COUNT, MEDIAN, QUARTILES, PERCENTILES>>
    ELSE IF col_type_upper \in TextRuleKeys
    THEN <<COUNT, DISTINCT_COUNT, TOP_K, VALUE_DISTRIBUTION, LENGTH_ANALYSIS,
           PATTERN_ANALYSIS>>
    ELSE IF col_type_upper \in TimeRuleKeys
    THEN <<COUNT, DATE_RANGE, YEAR_ANALYSIS, MONTH_ANALYSIS, DAY_ANALYSIS,
           HOUR_ANALYSIS, WEEKDAY_ANALYSIS, SEASONAL_ANALYSIS>>
    ELSE <<COUNT>>

\* ExcelAnalyzer.get_available_analyses on an analyzer whose current table
\* has the columns of types (lower-cased by get_column_types)
get_available_analyses(types, column) ==
    LET col_type == IF column \in DOMAIN types THEN types[column]
                    ELSE <<"v", "a", "r", "c", "h", "a", "r">>
    IN  analysis_rules(upper(col_type))

GetAvailableAnalyses ==
    /\ call = Idle
    /\ \E c \in DOMAIN column_types \cup {"nonexistent"} :
          /\ call' = [fn |-> "get_available_analyses", column_name |-> c]
          /\ result' = get_available_analyses(column_types, c)
    /\ UNCHANGED <<table_name, column_types, memo, sessions, engine_log, db_engine, issued>>

NextTypes ==
    \/ IsDuckdbNumericType
    \/ IsDuckdbTextType
    \/ IsDuckdbTimeType
    \/ GetAvailableAnalysisTypes
    \/ GetAnalysisExamples
    \/ GetDefaultAnalysis
    \/ GetAvailableAnalyses
    \/ Return

SpecTypes == InitTypes /\ [][NextTypes]_vars

(***************************************************************************)
(* Third specification: compile calls in any interleaving, with an         *)
(* observer that remembers one earlier call and its result.                *)
(***************************************************************************)
ObservedColumns == {"amount", "name"}

ObservedTypes == {AVG, TOP_K, YEAR_ANALYSIS, CORRELATION}

ObservedGroupBy == {<<>>, Some(<<"dept">>)}

ObservedWhere == {<<>>} \cup {Some(d) : d \in FilterDicts(1, SimpleConds)}

ObservedConfigs ==
    { <<[col |-> "amount", type |-> SUM]>>,
      <<[col |-> "amount", type |-> AVG], [col |-> "name", type |-> COUNT]>> }

\* the observer: remember this call, or note that another call came in between
Observe ==
    \/ memo = <<>> /\ memo' = <<>>
    \/ memo = <<>> /\ memo' = Some([call |-> call', result |-> result', between |-> FALSE])
    \/ memo # <<>> /\
       memo' = Some([Get(memo) EXCEPT !.between = @ \/ call' # Get(memo).call])

ObservedGenerateSql ==
    /\ call = Idle
    /\ \E c \in ObservedColumns, t \in ObservedTypes, g \in ObservedGroupBy,
          w \in ObservedWhere, l \in LimitInputs, s \in SecondInputs :
            CallGenerateSql(c, t, g, w, l, DefaultTopK, s)
    /\ Observe
    /\ UNCHANGED <<sessions, engine_log, db_engine, issued>>

ObservedGenerateMultiColumnSql ==
    /\ call = Idle
    /\ \E cfg \in ObservedConfigs, g \in ObservedGroupBy, w \in ObservedWhere :
            CallGenerateMultiColumnSql(cfg, g, w)
    /\ Observe
    /\ UNCHANGED <<sessions, engine_log, db_engine, issued>>

NextObserved ==
    \/ ObservedGenerateSql
    \/ ObservedGenerateMultiColumnSql
    \/ Return

SpecObserved == Init /\ [][NextObserved]_vars

(***************************************************************************)
(* ExcelAnalyzer: the capability table the analyzer keeps for itself.      *)
(***************************************************************************)
(***************************************************************************)
(* Fourth specification: the API service (QuackViewService).  sessions     *)
(* maps a task id to the session created for it.                           *)
(***************************************************************************)
MaxSessions == 2

TaskIds == {"task" \o ToString(i) : i \in 1..MaxSessions}

RECURSIVE Concat(_)
Concat(chars) == IF chars = <<>> THEN "" ELSE Head(chars) \o Concat(Tail(chars))

\* str.startswith
StartsWith(chars, prefix) ==
    Len(chars) >= Len(prefix) /\ SubSeq(chars, 1, Len(prefix)) = prefix

TblPrefix == <<"t", "b", "l", "_">>

\* lines 84-91: table_info is {} when the schema has none, the name defaults
\* to "data" and gets the tbl_ prefix unless it already has it
SessionTableName(schema_table_name) ==
    LET name == IF IsNone(schema_table_name) THEN <<"d", "a", "t", "a">>
                ELSE Get(schema_table_name)
    IN  IF name # <<>> /\ ~StartsWith(name, TblPrefix) THEN Concat(TblPrefix \o name)
        ELSE IF name = <<>> THEN "tbl_data"
        ELSE Concat(name)

Digits == {"0", "1", "2", "3", "4", "5", "6", "7", "8", "9"}

\* c.isalnum() or c == "_", on a lower-cased character
IsTableNameChar(ch) ==
    (\E i \in 1..26 : LowerAlpha[i] = ch) \/ ch \in Digits \/ ch = "_"

RECURSIVE KeepTableNameChars(_)
KeepTableNameChars(chars) ==
    IF chars = <<>> THEN <<>>
    ELSE (IF IsTableNameChar(Head(chars)) THEN <<Head(chars)>> ELSE <<>>)
             \o KeepTableNameChars(Tail(chars))

\* ExcelConnector.import_excel called without a table name (lines 120-122):
\* the stem of the path, lower-cased, every other character dropped
DefaultTableName(stem) == KeepTableNameChars(lower(stem))

HexDigits == <<"a", "3", "f", "9", "c", "0">>

\* str(uuid.uuid4()) of the i-th session, shortened to five characters:
\* hexadecimal digits and a hyphen
Uuid(i) == <<HexDigits[((i - 1) % Len(HexDigits)) + 1], "e", "-", "4", "b">>

\* the stem of the uploaded file's name
UploadStems == {<<"S", "a", "l", "e", "s">>, <<"t", "b", "l", "_", "q", "1">>}

\* line 43: the stem of temp_dir / f"{task_id}_{clean_filename}"
SavedStem(i, stem) == Uuid(i) \o <<"_">> \o stem

\* lines 52-91 for the i-th session and an upload that imports: the
\* connector creates the table DefaultTableName(stem of the saved file) in
\* its connection (line 57), the analyzer imports the same file into a
\* connection of its own and reports that name (line 68), and the session
\* keeps the connector's connection with the name of lines 85-91
NewSession(i, stem) ==
    LET imported == DefaultTableName(SavedStem(i, stem))
    IN  [file_path |-> Concat(SavedStem(i, stem)),
         table_name |-> SessionTableName(Some(imported)),
         tables |-> {Concat(imported)}]

\* where the import of an upload can stop
UploadOutcomes ==
    {"empty", "save_failed", "import_failed", "analyze_failed", "connect_failed", "ok"}

CreateSession ==
    /\ call = Idle
    /\ TaskIds \ issued # {}
    /\ \E i \in 1..MaxSessions, task_id \in TaskIds \ issued,
          outcome \in UploadOutcomes, stem \in UploadStems :
          /\ task_id = "task" \o ToString(i)
          /\ call' = [fn |-> "create_session", outcome |-> outcome]
          /\ IF outcome = "ok"
             THEN /\ sessions' =
                        [t \in DOMAIN sessions \cup {task_id} |->
                            IF t = task_id THEN NewSession(i, stem) ELSE sessions[t]]
                  /\ issued' = issued \cup {task_id}
                  /\ result' = [ok |-> TRUE, task_id |-> task_id]
             ELSE /\ sessions' = sessions
                  /\ issued' = issued
                  /\ result' =
                        Raise(CASE outcome \in {"empty", "save_failed"} -> "FileValidationError"
                                [] outcome \in {"import_failed", "analyze_failed"} ->
                                       "ExcelProcessingError"
                                [] outcome = "connect_failed" -> "DatabaseConnectionError")
    /\ UNCHANGED <<table_name, column_types, memo, engine_log, db_engine>>

\* variant: the session is reported closed but its entry stays in the map
CloseSessionKeepsEntry ==
    /\ call = Idle
    /\ \E task_id \in TaskIds :
          /\ call' = [fn |-> "close_session", task_id |-> task_id]
          /\ result' = (task_id \in DOMAIN sessions)
          /\ sessions' = sessions
    /\ UNCHANGED <<table_name, column_types, memo, engine_log, db_engine, issued>>

CloseSession ==
    /\ call = Idle
    /\ \E task_id \in TaskIds :
          /\ call' = [fn |-> "close_session", task_id |-> task_id]
          /\ result' = (task_id \in DOMAIN sessions)
          /\ sessions' = [t \in DOMAIN sessions \ {task_id} |-> sessions[t]]
    /\ UNCHANGED <<table_name, column_types, memo, engine_log, db_engine, issued>>

\* the members class AnalysisType defines: name and value
EnumMembers ==
    << <<"AVG", AVG>>, <<"MAX", MAX>>, <<"MIN", MIN>>, <<"SUM", SUM>>,
       <<"VAR_POP", VAR_POP>>, <<"STDDEV_POP", STDDEV_POP>>, <<"COUNT", COUNT>>,
       <<"MEDIAN", MEDIAN>>, <<"QUARTILES", QUARTILES>>, <<"PERCENTILES", PERCENTILES>>,
       <<"DISTINCT_COUNT", DISTINCT_COUNT>>, <<"TOP_K", TOP_K>>,
       <<"VALUE_DISTRIBUTION", VALUE_DISTRIBUTION>>,
       <<"LENGTH_ANALYSIS", LENGTH_ANALYSIS>>, <<"PATTERN_ANALYSIS", PATTERN_ANALYSIS>>,
       <<"DATE_RANGE", DATE_RANGE>>, <<"YEAR_ANALYSIS", YEAR_ANALYSIS>>,
       <<"MONTH_ANALYSIS", MONTH_ANALYSIS>>, <<"DAY_ANALYSIS", DAY_ANALYSIS>>,
       <<"HOUR_ANALYSIS", HOUR_ANALYSIS>>, <<"WEEKDAY_ANALYSIS", WEEKDAY_ANALYSIS>>,
       <<"SEASONAL_ANALYSIS", SEASONAL_ANALYSIS>>, <<"MISSING_VALUES", MISSING_VALUES>>,
       <<"DATA_QUALITY", DATA_QUALITY>>, <<"CORRELATION", CORRELATION>> >>

MemberNames == {EnumMembers[i][1] : i \in 1..Len(EnumMembers)}

\* AnalysisType.<name>
Member(name) == EnumMembers[CHOOSE i \in 1..Len(EnumMembers) : EnumMembers[i][1] = name][2]

\* the dict literal of lines 219-246: request spelling and the member it names
operation_mapping ==
    << <<"SUM", "SUM">>, <<"AVG", "AVG">>, <<"MAX", "MAX">>, <<"MIN", "MIN">>,
       <<"COUNT", "COUNT">>, <<"COUNT_DISTINCT", "DISTINCT_COUNT">>,
       <<"VAR_POP", "VAR_POP">>, <<"STDDEV_POP", "STDDEV_POP">>,
       <<"MEDIAN", "MEDIAN">>, <<"QUARTILES", "QUARTILES">>,
       <<"PERCENTILES", "PERCENTILES">>, <<"TOP_K", "TOP_K">>,
       <<"VALUE_DISTRIBUTION", "VALUE_DISTRIBUTION">>,
       <<"LENGTH_ANALYSIS", "LENGTH_ANALYSIS">>,
       <<"PATTERN_ANALYSIS", "PATTERN_ANALYSIS">>, <<"DATE_RANGE", "DATE_RANGE">>,
       <<"YEAR_ANALYSIS", "YEAR_ANALYSIS">>, <<"MONTH_ANALYSIS", "MONTH_ANALYSIS">>,
       <<"DAY_ANALYSIS", "DAY_ANALYSIS">>, <<"HOUR_ANALYSIS", "HOUR_ANALYSIS">>,
       <<"WEEKDAY_ANALYSIS", "WEEKDAY_ANALYSIS">>,
       <<"SEASONAL_ANALYSIS", "SEASONAL_ANALYSIS">>,
       <<"MISSING_VALUES", "MISSING_VALUES">>, <<"DATA_QUALITY", "DATA_QUALITY">>,
       <<"CORRELATION", "CORRELATION">>, <<"SELECT", "SELECT">> >>

MappingKeys == {operation_mapping[i][1] : i \in 1..Len(operation_mapping)}

MappedMember(operation) ==
    operation_mapping[CHOOSE i \in 1..Len(operation_mapping) :
                          operation_mapping[i][1] = operation][2]

\* the loop of lines 214-253; evaluating the dict literal looks every member up
ConvertOperations(operations) ==
    IF \E i \in 1..Len(operation_mapping) : operation_mapping[i][2] \notin MemberNames
    THEN Raise("AttributeError")
    ELSE IF \E i \in 1..Len(operations) : operations[i].operation \notin MappingKeys
    THEN Raise("AnalysisError")
    ELSE [ok |-> TRUE,
          converted |->
              [i \in 1..Len(operations) |->
                  [column |-> operations[i].column,
                   analysis_type |-> Member(MappedMember(operations[i].operation))]]]

SupportedOperators == {"=", "BETWEEN", ">", "<", ">=", "<=", "!=", "LIKE"}

\* where_conditions[column] = cond on a dict: a new key goes last, a key
\* already present keeps its place and takes the new value
DictSet(d, col, cond) ==
    IF \E i \in 1..Len(d) : d[i].col = col
    THEN [i \in 1..Len(d) |-> IF d[i].col = col THEN [col |-> col, cond |-> cond] ELSE d[i]]
    ELSE Append(d, [col |-> col, cond |-> cond])

RECURSIVE FiltersToDict(_, _)
FiltersToDict(filters, d) ==
    IF filters = <<>> THEN d
    ELSE FiltersToDict(Tail(filters),
                       DictSet(d, Head(filters).column,
                               TupleCond(Head(filters).operator, Head(filters).value)))

\* lines 255-282: the where_conditions built from the request's filters
ConvertFilters(filters) ==
    IF ~Truthy(filters) THEN [ok |-> TRUE, where_conditions |-> <<>>]
    ELSE IF \E i \in 1..Len(Get(filters)) : Get(filters)[i].operator \notin SupportedOperators
    THEN Raise("AnalysisError")
    ELSE [ok |-> TRUE, where_conditions |-> Some(FiltersToDict(Get(filters), <<>>))]

\* the parameters generate_sql declares (lines 191-200)
GenerateSqlParameters ==
    {"column_name", "analysis_type", "group_by_columns", "where_conditions", "limit",
     "top_k", "second_column"}

\* the methods class SQLGenerator defines
SQLGeneratorMethods ==
    {"get_available_analysis_types", "generate_sql", "_generate_correlation_sql",
     "_build_select_clause", "_build_where_clause", "_build_group_by_clause",
     "_build_order_by_clause", "_build_limit_clause", "get_analysis_examples",
     "_get_analysis_description"}

\* lines 284-293: the keyword arguments of the single-operation call
ServiceSingleSql(tn, op, where_conditions, group_by, sort_by, limit) ==
    IF ~({"column_name", "analysis_type", "group_by_columns", "where_conditions",
          "sort_by", "limit"} \subseteq GenerateSqlParameters)
    THEN Raise("TypeError")
    ELSE generate_sql(tn, op.column, op.analysis_type, group_by, where_conditions,
                      limit, DefaultTopK, <<>>)

\* lines 296-354: both multi-operation branches build the same statement; the
\* clause builders are looked up on the generator in the order of the calls
ServiceMultiSql(tn, converted, where_conditions, group_by, sort_by) ==
    CASE ~({"_build_select_clause", "_build_where_clause", "_build_group_by_clause",
            "_build_custom_order_by_clause"} \subseteq SQLGeneratorMethods) ->
            Raise("AttributeError")

\* the tables a statement reads: the token after each FROM
TablesNamed(sql) == {sql[i + 1] : i \in {j \in 1..(Len(sql) - 1) : sql[j] \in {"FROM", "from"}}}

\* con.execute(sql) on the session's connection: a statement naming a table
\* the connection lacks fails; whether another statement runs is the
\* engine's decision
EngineRuns(session, sql, engine_ok) == engine_ok /\ TablesNamed(sql) \subseteq session.tables

\* lines 209-354, inside the try: the generator is constructed on the
\* session's connection (DESCRIBE of the stored table name), the operations
\* and the filters are converted, the statement is compiled
ServiceCompile(session, operations, filters, group_by, sort_by, limit) ==
    IF session.table_name \notin session.tables THEN Raise("CatalogException")
    ELSE LET tn == session.table_name
             ops == ConvertOperations(operations)
             conds == ConvertFilters(filters)
         IN  IF ~ops.ok THEN ops
             ELSE IF ~conds.ok THEN conds
             ELSE IF Len(ops.converted) = 1
             THEN ServiceSingleSql(tn, ops.converted[1], conds.where_conditions,
                                   group_by, sort_by, limit)
             ELSE ServiceMultiSql(tn, ops.converted, conds.where_conditions,
                                  group_by, sort_by)

\* QuackViewService.execute_analysis; a raised exception is Raise(its class)
service_execute_analysis(sess, task_id, operations, filters, group_by, sort_by, limit, engine_ok) ==
    IF task_id \notin DOMAIN sess THEN Raise("SessionNotFoundError")
    ELSE IF operations = <<>> THEN Raise("AnalysisError")
    ELSE LET compiled == ServiceCompile(sess[task_id], operations, filters, group_by,
                                        sort_by, limit)
         IN  IF compiled.ok /\ EngineRuns(sess[task_id], compiled.sql, engine_ok)
             THEN [ok |-> TRUE, sql_preview |-> compiled.sql]
             ELSE Raise("SQLExecutionError")

\* the statements execute_analysis sends to the session's connection for
\* execution (line 358)
service_execute_analysis_sent(sess, task_id, operations, filters, group_by, sort_by, limit) ==
    IF task_id \notin DOMAIN sess \/ operations = <<>> THEN <<>>
    ELSE LET compiled == ServiceCompile(sess[task_id], operations, filters, group_by,
                                        sort_by, limit)
         IN  IF compiled.ok THEN <<compiled.sql>> ELSE <<>>

OperationInputs ==
    { <<>>,
      <<[column |-> "amount", operation |-> "AVG"]>>,
      <<[column |-> "name", operation |-> "TOP_K"]>>,
      <<[column |-> "amount", operation |-> "avg"]>>,
      <<[column |-> "amount", operation |-> "AVG"], [column |-> "amount", operation |-> "MAX"]>>,
      <<[column |-> "name", operation |-> "TOP_K"], [column |-> "amount", operation |-> "AVG"]>> }

FilterInputs ==
    { <<>>, Some(<<>>),
      Some(<<[column |-> "age", operator |-> ">", value |-> IntVal(20)]>>),
      Some(<<[column |-> "age", operator |-> ">", value |-> IntVal(20)],
             [column |-> "dept", operator |-> "=", value |-> StrVal("Eng")]>>),
      Some(<<[column |-> "age", operator |-> ">", value |-> IntVal(20)],
             [column |-> "age", operator |-> "<", value |-> IntVal(40)]>>),
      Some(<<[column |-> "age", operator |-> "~", value |-> IntVal(20)]>>) }

SortByInputs ==
    { <<>>, Some(<<>>),
      Some(<<[field |-> "amount", order |-> "DESC"]>>),
      Some(<<[field |-> "dept", order |-> "ASC"], [field |-> "amount", order |-> "DESC"]>>) }

ServiceExecuteAnalysis ==
    /\ call = Idle
    /\ \E task_id \in TaskIds, operations \in OperationInputs, filters \in FilterInputs,
          group_by \in ObservedGroupBy, sort_by \in SortByInputs, limit \in LimitInputs,
          engine_ok \in BOOLEAN :
          /\ call' = [fn |-> "execute_analysis", task_id |-> task_id,
                      operations |-> operations, filters |-> filters,
                      group_by |-> group_by, sort_by |-> sort_by, limit |-> limit]
          /\ result' = service_execute_analysis(sessions, task_id, operations, filters,
                                                group_by, sort_by, limit, engine_ok)
          /\ engine_log' = service_execute_analysis_sent(sessions, task_id, operations,
                                                         filters, group_by, sort_by, limit)
    /\ UNCHANGED <<table_name, column_types, memo, sessions, db_engine, issued>>

(***************************************************************************)
(* The other methods of the service.  The uploaded workbook has the        *)
(* columns of Described.                                                   *)
(***************************************************************************)
\* value.upper() of an operation: the name of its member
UpperValue(value) ==
    EnumMembers[CHOOSE i \in 1..Len(EnumMembers) : EnumMembers[i][2] = value][1]

UpperValues(values) == [i \in 1..Len(values) |-> UpperValue(values[i])]

get_schema(sess, task_id) ==
    IF task_id \notin DOMAIN sess THEN Raise("SessionNotFoundError")
    ELSE [ok |-> TRUE, table_name |-> sess[task_id].table_name, columns |-> Described]

\* lines 134-158 when the generator constructs on the session's connection,
\* lines 160-167 (the options the analyzer stored in the schema, without the
\* column's type) when that raises
get_analysis_options(sess, task_id) ==
    IF task_id \notin DOMAIN sess THEN Raise("SessionNotFoundError")
    ELSE LET types == get_column_type_map(Described)
         IN  IF sess[task_id].table_name \in sess[task_id].tables
             THEN [ok |-> TRUE,
                   options |->
                       [c \in DOMAIN Described |->
                           [operations |->
                                UpperValues(get_available_analysis_types(types, c)),
                            type |-> Some(Described[c])]]]
             ELSE [ok |-> TRUE,
                   options |->
                       [c \in DOMAIN Described |->
                           [operations |-> UpperValues(get_available_analyses(types, c)),
                            type |-> <<>>]]]

get_session_info(sess, task_id) ==
    IF task_id \notin DOMAIN sess THEN Raise("SessionNotFoundError")
    ELSE [ok |-> TRUE, task_id |-> task_id, table_name |-> sess[task_id].table_name,
          file_path |-> sess[task_id].file_path]

common_table_names == {"data", "DATA", "table", "TABLE", "main", "MAIN"}

\* lines 383-410 on a statement whose words are its tokens: a common name
\* right after FROM, JOIN or UPDATE (in either case) becomes the session's
\* table name
ReplaceCommonNames(sql, tn) ==
    [i \in 1..Len(sql) |->
        IF /\ i > 1
           /\ sql[i - 1] \in {"FROM", "from", "JOIN", "join", "UPDATE", "update"}
           /\ sql[i] \in common_table_names
        THEN tn ELSE sql[i]]

execute_custom_query(sess, task_id, sql, engine_ok) ==
    IF task_id \notin DOMAIN sess THEN Raise("SessionNotFoundError")
    ELSE IF sql = <<>> THEN Raise("SQLExecutionError")
    ELSE LET processed_sql == ReplaceCommonNames(sql, sess[task_id].table_name)
         IN  IF EngineRuns(sess[task_id], processed_sql, engine_ok)
             THEN [ok |-> TRUE, sql_preview |-> processed_sql]
             ELSE Raise("SQLExecutionError")

export_sql(sess, task_id) ==
    IF task_id \notin DOMAIN sess THEN Raise("SessionNotFoundError")
    ELSE [ok |-> TRUE,
          sql |-> <<"SELECT", "*", "FROM", sess[task_id].table_name, ";">>]

\* where writing and reading back the exported workbook can stop
ExportOutcomes == {"write_failed", "read_failed", "ok"}

export_excel(sess, task_id, engine_ok, outcome) ==
    IF task_id \notin DOMAIN sess THEN Raise("SessionNotFoundError")
    ELSE IF ~EngineRuns(sess[task_id], <<"SELECT", "*", "FROM", sess[task_id].table_name>>,
                        engine_ok)
    THEN Raise("SQLExecutionError")
    ELSE IF outcome # "ok" THEN Raise("ExportError")
    ELSE [ok |-> TRUE, bytes |-> "xlsx"]

(***************************************************************************)
(* The HTTP routes: each calls one service method inside try / except      *)
(* ValueError -> 404 / except Exception -> another status.                 *)
(***************************************************************************)
\* the classes of exceptions.py; each derives from QuackViewException, which
\* derives from Exception
QuackViewExceptions ==
    {"SessionNotFoundError", "FileValidationError", "ExcelProcessingError",
     "SQLExecutionError", "AnalysisError", "ExportError", "DatabaseConnectionError",
     "InvalidRequestError"}

\* isinstance(e, base) for an exception of class cls
IsInstance(cls, base) ==
    \/ base = cls
    \/ base = "Exception"
    \/ base = "QuackViewException" /\ cls \in QuackViewExceptions

\* the response of a route: the value on success; on an exception the
\* HTTPException the handler raises, whose body is {"detail": str(e)} with
\* no error kind
RouteResponse(outcome, other_status) ==
    IF outcome.ok THEN [status |-> 200, kind |-> <<>>, body |-> Some(outcome)]
    ELSE IF IsInstance(outcome.error, "ValueError")
    THEN [status |-> 404, kind |-> <<>>, body |-> <<>>]
    ELSE [status |-> other_status, kind |-> <<>>, body |-> <<>>]

\* a route's call of the service and its answer
Routed(outcome, other_status) ==
    [service |-> outcome, response |-> RouteResponse(outcome, other_status)]

RouteGetSchema ==
    /\ call = Idle
    /\ \E task_id \in TaskIds :
          /\ call' = [fn |-> "GET /api/schema", task_id |-> task_id]
          /\ result' = Routed(get_schema(sessions, task_id), 500)
    /\ UNCHANGED <<table_name, column_types, memo, sessions, engine_log, db_engine, issued>>

RouteGetAnalysisOptions ==
    /\ call = Idle
    /\ \E task_id \in TaskIds :
          /\ call' = [fn |-> "GET /api/analysis-options", task_id |-> task_id]
          /\ result' = Routed(get_analysis_options(sessions, task_id), 500)
    /\ UNCHANGED <<table_name, column_types, memo, sessions, engine_log, db_engine, issued>>

RouteGetSessionInfo ==
    /\ call = Idle
    /\ \E task_id \in TaskIds :
          /\ call' = [fn |-> "GET /api/session-info", task_id |-> task_id]
          /\ result' = Routed(get_session_info(sessions, task_id), 500)
    /\ UNCHANGED <<table_name, column_types, memo, sessions, engine_log, db_engine, issued>>

RouteExportSql ==
    /\ call = Idle
    /\ \E task_id \in TaskIds :
          /\ call' = [fn |-> "GET /api/export/sql", task_id |-> task_id]
          /\ result' = Routed(export_sql(sessions, task_id), 500)
    /\ UNCHANGED <<table_name, column_types, memo, sessions, engine_log, db_engine, issued>>

RouteExportExcel ==
    /\ call = Idle
    /\ \E task_id \in TaskIds, engine_ok \in BOOLEAN, outcome \in ExportOutcomes :
          /\ call' = [fn |-> "GET /api/export/excel", task_id |-> task_id]
          /\ result' = Routed(export_excel(sessions, task_id, engine_ok, outcome), 500)
          /\ engine_log' =
                IF task_id \in DOMAIN sessions
                THEN << <<"SELECT", "*", "FROM", sessions[task_id].table_name>> >>
                ELSE <<>>
    /\ UNCHANGED <<table_name, column_types, memo, sessions, db_engine, issued>>

CustomQueries ==
    { <<>>, <<"SELECT", "1">>, <<"SELECT", "*", "FROM", "data">> }

RouteExecuteCustomQuery ==
    /\ call = Idle
    /\ \E task_id \in TaskIds, sql \in CustomQueries, engine_ok \in BOOLEAN :
          /\ call' = [fn |-> "POST /api/query/custom", task_id |-> task_id, sql |-> sql]
          /\ result' = Routed(execute_custom_query(sessions, task_id, sql, engine_ok), 422)
          /\ engine_log' =
                IF task_id \in DOMAIN sessions /\ sql # <<>>
                THEN <<ReplaceCommonNames(sql, sessions[task_id].table_name)>>
                ELSE <<>>
    /\ UNCHANGED <<table_name, column_types, memo, sessions, db_engine, issued>>

\* what the route hands to the service (lines 98-109): the operations, the
\* filters (None when the request has none or an empty list) and nothing else
RouteOperations == OperationInputs \ {<<>>}

RouteFilters ==
    { <<>>, Some(<<[column |-> "age", operator |-> ">", value |-> IntVal(20)]>>) }

RouteSortBy == { <<>>, Some(<<[field |-> "amount", order |-> "DESC"]>>) }

RouteLimits == { <<>>, Some(5) }

RouteExecuteAnalysis ==
    /\ call = Idle
    /\ \E task_id \in TaskIds, operations \in RouteOperations, filters \in RouteFilters,
          group_by \in ObservedGroupBy, sort_by \in RouteSortBy, limit \in RouteLimits,
          engine_ok \in BOOLEAN :
          /\ call' = [fn |-> "POST /api/analyze", task_id |-> task_id,
                      operations |-> operations, filters |-> filters,
                      group_by |-> group_by, sort_by |-> sort_by, limit |-> limit]
          /\ result' =
                Routed(service_execute_analysis(
                           sessions, task_id, operations,
                           IF Truthy(filters) THEN filters ELSE <<>>,
                           <<>>, <<>>, <<>>, engine_ok), 500)
          /\ engine_log' =
                service_execute_analysis_sent(
                    sessions, task_id, operations,
                    IF Truthy(filters) THEN filters ELSE <<>>, <<>>, <<>>, <<>>)
    /\ UNCHANGED <<table_name, column_types, memo, sessions, db_engine, issued>>

\* DELETE /api/connection: 404 when close_session returns False
RouteCloseConnection ==
    /\ call = Idle
    /\ \E task_id \in TaskIds :
          /\ call' = [fn |-> "DELETE /api/connection", task_id |-> task_id]
          /\ result' =
                [service |-> (task_id \in DOMAIN sessions),
                 response |-> IF task_id \in DOMAIN sessions
                              THEN [status |-> 200, kind |-> <<>>, body |-> Some("closed")]
                              ELSE [status |-> 404, kind |-> <<>>, body |-> <<>>]]
          /\ sessions' = [t \in DOMAIN sessions \ {task_id} |-> sessions[t]]
    /\ UNCHANGED <<table_name, column_types, memo, engine_log, db_engine, issued>>

NextService ==
    \/ CreateSession
    \/ CloseSession
    \/ ServiceExecuteAnalysis
    \/ RouteGetSchema
    \/ RouteGetAnalysisOptions
    \/ RouteGetSessionInfo
    \/ RouteExportSql
    \/ RouteExportExcel
    \/ RouteExecuteCustomQuery
    \/ RouteExecuteAnalysis
    \/ RouteCloseConnection
    \/ Return

SpecService == Init /\ [][NextService]_vars

(***************************************************************************)
(* Fifth specification: a DBEngine (query/engine.py).  Its imports create  *)
(* the table of Init, "t" with the columns of Described; memo remembers    *)
(* the last import that returned success.                                  *)
(***************************************************************************)
\* where an import can stop: the connector raises (lines 63, 103), the
\* generator's constructor raises (lines 69, 107), the analyzer raises
\* (lines 71, 109), or nothing does
ImportOutcomes == {"connector_failed", "generator_failed", "analyzer_failed", "ok"}

\* the fields after import_excel / import_dataframe: each assignment made
\* before the exception stays
EngineAfterImport(eng, tn, outcome) ==
    CASE outcome = "connector_failed" -> eng
      [] outcome = "generator_failed" ->
             [eng EXCEPT !.current_table = Some(tn), !.executor = Some("SQLExecutor")]
      [] outcome \in {"analyzer_failed", "ok"} ->
             [current_table |-> Some(tn), executor |-> Some("SQLExecutor"),
              generator |-> Some(tn)]

\* what import_excel / import_dataframe return (lines 75-89, 111-125)
ImportResult(tn, outcome) ==
    IF outcome = "ok"
    THEN [success |-> TRUE, table_name |-> Some(tn), error |-> <<>>]
    ELSE [success |-> FALSE, table_name |-> <<>>, error |-> Some(outcome)]

\* the envelope of lines 172-177, 207-212 and 301-306
ImportFirstEnvelope(sql) ==
    [success |-> FALSE, result |-> <<>>, sql |-> sql,
     error |-> Some(<<"import a file first">>)]

\* not self.executor or not self.current_table
NotImported(eng) == IsNone(eng.executor) \/ ~TruthyStr(eng.current_table)

engine_execute_analysis(eng, column_name, analysis_type, group_by_columns, where_conditions, limit, top_k, engine_ok) ==
    IF NotImported(eng) THEN ImportFirstEnvelope(<<>>)
    ELSE execute_analysis(Get(eng.current_table), column_name, analysis_type,
                          group_by_columns, where_conditions, limit, top_k, <<>>,
                          engine_ok)

engine_execute_multi_column_analysis(eng, analysis_config, group_by_columns, where_conditions, engine_ok) ==
    IF NotImported(eng) THEN ImportFirstEnvelope(<<>>)
    ELSE execute_multi_column_analysis(Get(eng.current_table), analysis_config,
                                       group_by_columns, where_conditions, engine_ok)

\* lines 300-312: the guard looks at the executor only; both other returns
\* carry the statement
execute_custom_sql(eng, sql, engine_ok) ==
    IF IsNone(eng.executor) THEN ImportFirstEnvelope(Some(sql))
    ELSE IF execute(sql, engine_ok).ok
    THEN [success |-> TRUE, result |-> Some("DataFrame"), sql |-> Some(sql), error |-> <<>>]
    ELSE [success |-> FALSE, result |-> <<>>, sql |-> Some(sql),
          error |-> Some(<<"engine error">>)]

\* the stems of the Excel paths handed to import_excel
EnginePaths == {<<"T">>, <<"t", "-">>}

\* the name ExcelConnector.import_excel gives the table (lines 119-122 of
\* excel_connector.py)
ImportedTableName(stem, tn) ==
    IF IsNone(tn) THEN Concat(DefaultTableName(stem)) ELSE Get(tn)

EngineImportExcel ==
    /\ call = Idle
    /\ \E stem \in EnginePaths, tn \in {<<>>, Some(table_name)},
          outcome \in ImportOutcomes :
          LET imported == ImportedTableName(stem, tn) IN
          /\ call' = [fn |-> "DBEngine.import_excel", excel_path |-> stem,
                      table_name |-> tn]
          /\ result' = ImportResult(imported, outcome)
          /\ db_engine' = EngineAfterImport(db_engine, imported, outcome)
          /\ memo' = IF outcome = "ok"
                     THEN Some([call |-> call', result |-> result'])
                     ELSE memo
    /\ UNCHANGED <<table_name, column_types, sessions, engine_log, issued>>

EngineImportDataframe ==
    /\ call = Idle
    /\ \E outcome \in ImportOutcomes :
          /\ call' = [fn |-> "DBEngine.import_dataframe", table_name |-> table_name]
          /\ result' = ImportResult(table_name, outcome)
          /\ db_engine' = EngineAfterImport(db_engine, table_name, outcome)
          /\ memo' = IF outcome = "ok"
                     THEN Some([call |-> call', result |-> result'])
                     ELSE memo
    /\ UNCHANGED <<table_name, column_types, sessions, engine_log, issued>>

EngineExecuteAnalysis ==
    /\ call = Idle
    /\ \E c \in {"amount", "name"}, t \in ExecutorTypes, g \in ExecutorGroupBy,
          w \in ExecutorWhere, l \in LimitInputs, engine_ok \in BOOLEAN :
          /\ call' = [fn |-> "DBEngine.execute_analysis", column_name |-> c,
                      analysis_type |-> t, group_by_columns |-> g,
                      where_conditions |-> w, limit |-> l, top_k |-> DefaultTopK]
          /\ result' = engine_execute_analysis(db_engine, c, t, g, w, l, DefaultTopK,
                                               engine_ok)
          /\ engine_log' =
                IF NotImported(db_engine) THEN <<>>
                ELSE execute_analysis_sent(Get(db_engine.current_table), c, t, g, w, l,
                                           DefaultTopK, <<>>, engine_ok)
    /\ UNCHANGED <<table_name, column_types, memo, sessions, db_engine, issued>>

EngineExecuteMultiColumnAnalysis ==
    /\ call = Idle
    /\ \E cfg \in ExecutorConfigs, g \in ExecutorGroupBy, w \in ExecutorWhere,
          engine_ok \in BOOLEAN :
          /\ call' = [fn |-> "DBEngine.execute_multi_column_analysis",
                      analysis_config |-> cfg, group_by_columns |-> g,
                      where_conditions |-> w]
          /\ result' = engine_execute_multi_column_analysis(db_engine, cfg, g, w,
                                                            engine_ok)
          /\ engine_log' =
                IF NotImported(db_engine) THEN <<>>
                ELSE execute_multi_column_analysis_sent(Get(db_engine.current_table),
                                                        cfg, g, w, engine_ok)
    /\ UNCHANGED <<table_name, column_types, memo, sessions, db_engine, issued>>

CustomSqlInputs == { <<"SELECT", "1">>, <<"SELECT", "*", "FROM", "t">> }

EngineExecuteCustomSql ==
    /\ call = Idle
    /\ \E sql \in CustomSqlInputs, engine_ok \in BOOLEAN :
          /\ call' = [fn |-> "DBEngine.execute_custom_sql", sql |-> sql]
          /\ result' = execute_custom_sql(db_engine, sql, engine_ok)
          /\ engine_log' = IF IsNone(db_engine.executor) THEN <<>>
                           ELSE execute(sql, engine_ok).sent
    /\ UNCHANGED <<table_name, column_types, memo, sessions, db_engine, issued>>

NextEngine ==
    \/ EngineImportExcel
    \/ EngineImportDataframe
    \/ EngineExecuteAnalysis
    \/ EngineExecuteMultiColumnAnalysis
    \/ EngineExecuteCustomSql
    \/ Return

SpecEngine == Init /\ [][NextEngine]_vars

(***************************************************************************)
(* Reading a statement back: clauses are found at parenthesis depth 0.     *)
(***************************************************************************)
Depth(sql, i) ==
    Cardinality({j \in 1..(i - 1) : sql[j] = "("})
        - Cardinality({j \in 1..(i - 1) : sql[j] = ")"})

\* the positions where the keyword kw (a token sequence) starts at depth 0
Positions(sql, kw) ==
    {i \in 1..(Len(sql) - Len(kw) + 1) :
        /\ \A j \in 1..Len(kw) : sql[i + j - 1] = kw[j]
        /\ Depth(sql, i) = 0}

SetMin(S) == CHOOSE x \in S : \A y \in S : x <= y

KwFrom == <<"FROM">>
KwWhere == <<"WHERE">>
KwGroupBy == <<"GROUP", "BY">>
KwOrderBy == <<"ORDER", "BY">>
KwLimit == <<"LIMIT">>

\* the tokens of the clause introduced by kw, up to the next of the keywords
\* in followers (or the end of the statement); empty when kw does not occur
ClauseOf(sql, kw, followers) ==
    LET starts == Positions(sql, kw)
    IN  IF starts = {} THEN <<>>
        ELSE LET start == SetMin(starts)
                 stops == {i \in UNION {Positions(sql, f) : f \in followers} : i > start}
             IN  SubSeq(sql, start, IF stops = {} THEN Len(sql) ELSE SetMin(stops) - 1)

SelectListOf(sql) == SubSeq(sql, 2, SetMin(Positions(sql, KwFrom)) - 1)

WhereClauseOf(sql) == ClauseOf(sql, KwWhere, {KwGroupBy, KwOrderBy, KwLimit})

GroupByClauseOf(sql) == ClauseOf(sql, KwGroupBy, {KwOrderBy, KwLimit})

LimitClauseOf(sql) == ClauseOf(sql, KwLimit, {})

\* the comma-separated expressions of a list, split at depth-0 commas
RECURSIVE SplitTopLevel(_, _, _)
SplitTopLevel(tokens, depth, current) ==
    IF tokens = <<>> THEN <<current>>
    ELSE LET h == Head(tokens)
         IN  IF h = "," /\ depth = 0
             THEN <<current>> \o SplitTopLevel(Tail(tokens), 0, <<>>)
             ELSE SplitTopLevel(Tail(tokens),
                                depth + (IF h = "(" THEN 1 ELSE IF h = ")" THEN -1 ELSE 0),
                                Append(current, h))

Contains(s, sub) ==
    \E i \in 1..(Len(s) - Len(sub) + 1) : SubSeq(s, i, i + Len(sub) - 1) = sub

IsGenerateSql == call.fn = "generate_sql"

\* the call took the correlation path of generate_sql
CorrelationPath ==
    call.analysis_type = CORRELATION /\ ~IsNone(call.second_column)
        /\ Get(call.second_column) # ""

IntrinsicallyGrouping ==
    { "top_k", "value_distribution", "length_analysis", "pattern_analysis",
      "year_analysis", "month_analysis", "day_analysis", "hour_analysis",
      "weekday_analysis", "seasonal_analysis" }

C2_ImplicitNullGuard ==
    (IsGenerateSql /\ result.ok /\ call.analysis_type # CORRELATION) =>
        LET caller == _build_where_clause(call.where_conditions)
            guard == <<call.column_name, "IS", "NOT", "NULL">>
            where == WhereClauseOf(result.sql)
        IN  IF call.analysis_type \in IntrinsicallyGrouping
            THEN where = (IF caller = <<>> THEN <<"WHERE">> ELSE caller \o <<"AND">>)
                             \o guard
            ELSE where = caller

C2_Witness ==
    /\ IsGenerateSql
    /\ result.ok
    /\ call.analysis_type = SEASONAL_ANALYSIS
    /\ ~IsNone(call.where_conditions)
    /\ Len(Get(call.where_conditions)) = 2
    /\ WhereClauseOf(result.sql) =
          <<"WHERE", "age", ">", "30", "AND", "dept", "=", "'Eng'", "AND",
            call.column_name, "IS", "NOT", "NULL">>

(***************************************************************************)
(* C3 - limit precedence, as claimed: over every request, an explicit      *)
(* limit L gives exactly `LIMIT L`; otherwise top_k, the frequency         *)
(* operations and the temporal bucketing operations give `LIMIT topK`;     *)
(* otherwise there is no LIMIT clause; never two LIMIT clauses.            *)
(***************************************************************************)
C3_LimitPrecedenceAsClaimed ==
    (IsGenerateSql /\ result.ok) =>
        /\ Cardinality(Positions(result.sql, KwLimit)) <= 1
        /\ LimitClauseOf(result.sql) =
              IF ~IsNone(call.limit)
              THEN <<"LIMIT", ToString(Get(call.limit))>>
              ELSE IF call.analysis_type \in IntrinsicallyGrouping
                   THEN <<"LIMIT", ToString(call.top_k)>>
                   ELSE <<>>

(***************************************************************************)
(* C3 (amended) - a statement of the correlation path has no LIMIT clause; *)
(* on every other request an explicit limit L gives exactly `LIMIT L`,     *)
(* otherwise top_k, value_distribution, length_analysis and                *)
(* pattern_analysis give exactly `LIMIT topK`, and every other operation   *)
(* (the temporal bucketing operations included) has no LIMIT clause; there *)
(* are never two LIMIT clauses.                                            *)
(***************************************************************************)
C3_LimitPrecedence ==
    (IsGenerateSql /\ result.ok) =>
        /\ Cardinality(Positions(result.sql, KwLimit)) <= 1
        /\ LimitClauseOf(result.sql) =
              IF CorrelationPath THEN <<>>
              ELSE IF ~IsNone(call.limit)
              THEN <<"LIMIT", ToString(Get(call.limit))>>
              ELSE IF call.analysis_type \in
                        {"top_k", "value_distribution", "length_analysis",
                         "pattern_analysis"}
                   THEN <<"LIMIT", ToString(call.top_k)>>
                   ELSE <<>>

C3_Witness ==
    /\ IsGenerateSql
    /\ result.ok
    /\ call.analysis_type = TOP_K
    /\ call.limit = Some(3)
    /\ call.top_k = 7
    /\ LimitClauseOf(result.sql) = <<"LIMIT", "3">>
    /\ ~Contains(result.sql, <<"LIMIT", "7">>)

(***************************************************************************)
(* C4 - grouping pairing: in every statement of generate_sql that has      *)
(* grouping keys, the expressions of the GROUP BY clause are, in order,    *)
(* the non-aggregate expressions of the SELECT list (aliases aside).       *)
(***************************************************************************)
AggregateFunctions ==
    {"AVG", "MAX", "MIN", "SUM", "VAR_POP", "STDDEV_POP", "COUNT",
     "PERCENTILE_CONT", "CORR"}

\* an expression of the SELECT list without its trailing `as <alias>`
StripAlias(expr) ==
    IF Len(expr) >= 3 /\ expr[Len(expr) - 1] = "as"
    THEN SubSeq(expr, 1, Len(expr) - 2)
    ELSE expr

GroupingKeysOfSelect(sql) ==
    LET exprs == SplitTopLevel(SelectListOf(sql), 0, <<>>)
        bare == [i \in 1..Len(exprs) |-> StripAlias(exprs[i])]
    IN  SelectSeq(bare, LAMBDA e : e[1] \notin AggregateFunctions)

GroupByKeys(sql) ==
    LET clause == GroupByClauseOf(sql)
    IN  IF clause = <<>> THEN <<>>
        ELSE SplitTopLevel(SubSeq(clause, 3, Len(clause)), 0, <<>>)

HasGroupingKeys ==
    \/ call.analysis_type \in IntrinsicallyGrouping
    \/ (~IsNone(call.group_by_columns) /\ Get(call.group_by_columns) # <<>>)

C4_GroupingPairing ==
    (IsGenerateSql /\ result.ok /\ ~CorrelationPath /\ HasGroupingKeys) =>
        GroupByKeys(result.sql) = GroupingKeysOfSelect(result.sql)

C6_CapabilitySets ==
    (call.fn = "get_available_analysis_types"
        /\ call.column_name \in DOMAIN column_types) =>
        LET cat == Category(column_types[call.column_name])
        IN  /\ cat = CatNumeric =>
                  Range(result) =
                      {"avg", "max", "min", "sum", "var_pop", "stddev_pop",
                       "count", "median", "quartiles", "percentiles",
                       "missing_values", "data_quality"}
            /\ cat = CatText =>
                  Range(result) =
                      {"count", "distinct_count", "top_k", "value_distribution",
                       "length_analysis", "pattern_analysis",
                       "missing_values", "data_quality"}
            /\ cat = CatTemporal =>
                  Range(result) =
                      {"count", "date_range", "year_analysis", "month_analysis",
                       "day_analysis", "hour_analysis", "weekday_analysis",
                       "seasonal_analysis", "missing_values", "data_quality"}

(***************************************************************************)
(* C7 - classification is case-insensitive and matches on the base         *)
(* keyword: each of the three type predicates answers, for every spelling  *)
(* and parameterized form of a type, what it answers for the lower-case    *)
(* base keyword.                                                           *)
(***************************************************************************)
BaseKeyword(ty) == lower(SplitParen0(ty))

C7_CaseInsensitiveBaseKeyword ==
    /\ call.fn = "is_duckdb_numeric_type" =>
          result = (BaseKeyword(call.column_type) \in duckdb_numeric_types)
    /\ call.fn = "is_duckdb_text_type" =>
          result = (BaseKeyword(call.column_type) \in duckdb_text_types)
    /\ call.fn = "is_duckdb_time_type" =>
          result = (BaseKeyword(call.column_type) \in duckdb_time_types)

(***************************************************************************)
(* C8 - unknown type fallback: a type whose keyword is in none of the      *)
(* three keyword sets is rejected by all three predicates, and a column of *)
(* such a type is offered exactly count, missing_values and data_quality.  *)
(***************************************************************************)
C8_UnknownTypeFallback ==
    /\ (call.fn \in {"is_duckdb_numeric_type", "is_duckdb_text_type",
                     "is_duckdb_time_type"}
          /\ BaseKeyword(call.column_type) \notin Keywords)
          => result = FALSE
    /\ (call.fn = "get_available_analysis_types"
          /\ call.column_name \in DOMAIN column_types
          /\ BaseKeyword(column_types[call.column_name]) \notin Keywords)
          => /\ Len(result) = 3
             /\ Range(result) = {"count", "missing_values", "data_quality"}

C8_Witness ==
    /\ call.fn = "get_available_analysis_types"
    /\ call.column_name = "c"
    /\ column_types["c"] = <<"j", "s", "o", "n">>
    /\ result = <<"count", "missing_values", "data_quality">>

(***************************************************************************)
(* C9 - BETWEEN rendering: a filter {c: ("BETWEEN", [low, high])} appears  *)
(* in the WHERE clause as `c BETWEEN low AND high`.                        *)
(***************************************************************************)
IsCompile == call.fn \in {"generate_sql", "generate_multi_column_sql"}

Filters ==
    IF IsNone(call.where_conditions) THEN <<>> ELSE Get(call.where_conditions)

C9_BetweenRendering ==
    (IsCompile /\ result.ok) =>
        \A i \in 1..Len(Filters) :
            LET cond == Filters[i].cond
            IN  (cond.kind = "tuple" /\ cond.op = "BETWEEN"
                    /\ cond.val.t = "list" /\ Len(cond.val.v) = 2)
                => Contains(WhereClauseOf(result.sql),
                            <<Filters[i].col, "BETWEEN", ToString(cond.val.v[1]),
                              "AND", ToString(cond.val.v[2])>>)

(***************************************************************************)
(* C10 - filter validation: a BETWEEN filter whose value is not a pair, or *)
(* a filter with one of =, !=, >, <, >=, <=, LIKE whose value is not a     *)
(* scalar, is rejected: the compile call returns no SQL text.              *)
(***************************************************************************)
ScalarOperators == {"=", "!=", ">", "<", ">=", "<=", "LIKE"}

InvalidFilter(cond) ==
    /\ cond.kind = "tuple"
    /\ \/ cond.op = "BETWEEN" /\ ~(cond.val.t = "list" /\ Len(cond.val.v) = 2)
       \/ cond.op \in ScalarOperators /\ cond.val.t = "list"

C10_FilterValidation ==
    (IsCompile /\ \E i \in 1..Len(Filters) : InvalidFilter(Filters[i].cond))
        => ~result.ok

(***************************************************************************)
(* C11 - WHERE rendering: _build_where_clause on n >= 1 entries            *)
(* column -> (operator, value) returns WHERE c1 op1 v1 AND ... AND         *)
(* cn opn vn in the order of the entries, a string value between single    *)
(* quotes and any other value bare; on None or on no entries it returns    *)
(* the empty string.                                                       *)
(***************************************************************************)
\* the conjunct the claim expects for one (operator, value) entry
ExpectedConjunct(entry) ==
    <<entry.col, entry.cond.op>> \o
        (IF entry.cond.val.t = "str"
         THEN <<"'" \o entry.cond.val.v \o "'">>
         ELSE Format(entry.cond.val))

RECURSIVE ExpectedConjunction(_)
ExpectedConjunction(entries) ==
    IF Len(entries) = 1 THEN ExpectedConjunct(entries[1])
    ELSE ExpectedConjunct(entries[1]) \o <<"AND">> \o ExpectedConjunction(Tail(entries))

AllTuples(entries) == \A i \in 1..Len(entries) : entries[i].cond.kind = "tuple"

RECURSIVE SplitAnd(_, _)
SplitAnd(tokens, current) ==
    IF tokens = <<>> THEN <<current>>
    ELSE IF Head(tokens) = "AND" THEN <<current>> \o SplitAnd(Tail(tokens), <<>>)
    ELSE SplitAnd(Tail(tokens), Append(current, Head(tokens)))

ConjunctsOf(where_clause) ==
    IF where_clause = <<>> THEN <<>> ELSE SplitAnd(Tail(where_clause), <<>>)

\* the conjunct one filter of the request stands for
FilterConjunct(f) ==
    <<f.column, f.operator>> \o
        (IF f.value.t = "str" THEN <<"'" \o f.value.v \o "'">> ELSE Format(f.value))

C12_NoFilterLost ==
    (call.fn = "execute_analysis" /\ call.task_id \in DOMAIN sessions
        /\ call.operations # <<>> /\ Truthy(call.filters)
        /\ ConvertFilters(call.filters).ok) =>
        LET filters == Get(call.filters)
            where_clause == _build_where_clause(ConvertFilters(call.filters).where_conditions)
        IN  ConjunctsOf(where_clause) = [i \in 1..Len(filters) |-> FilterConjunct(filters[i])]

(***************************************************************************)
(* C13 - implicit ORDER BY: generate_sql emits ORDER BY count DESC exactly *)
(* for top_k, value_distribution, length_analysis, pattern_analysis and    *)
(* the six temporal bucketing operations, and no ORDER BY clause for every *)
(* other operation.                                                        *)
(***************************************************************************)
OrderByClauseOf(sql) == ClauseOf(sql, KwOrderBy, {KwLimit})

C13_ImplicitOrderBy ==
    (IsGenerateSql /\ result.ok) =>
        /\ Cardinality(Positions(result.sql, KwOrderBy)) <= 1
        /\ OrderByClauseOf(result.sql) =
              IF call.analysis_type \in IntrinsicallyGrouping
              THEN <<"ORDER", "BY", "count", "DESC">>
              ELSE <<>>

C13_Witness ==
    /\ IsGenerateSql
    /\ result.ok
    /\ call.analysis_type = WEEKDAY_ANALYSIS
    /\ call.limit = Some(3)
    /\ OrderByClauseOf(result.sql) = <<"ORDER", "BY", "count", "DESC">>
    /\ SubSeq(result.sql, Len(result.sql) - 5, Len(result.sql))
          = <<"ORDER", "BY", "count", "DESC", "LIMIT", "3">>

(***************************************************************************)
(* C14 - explicit sort precedence: a request with a non-empty sortBy list  *)
(* (f1, d1), ..., (fn, dn) compiles to a statement with exactly one ORDER  *)
(* BY clause, ORDER BY f1 d1, ..., fn dn in the caller's order, and the    *)
(* implicit ORDER BY count DESC is not emitted; for single-operation and   *)
(* multi-operation requests.                                               *)
(***************************************************************************)
\* a request the service has a session, operations and filters for
ValidServiceRequest ==
    /\ call.fn = "execute_analysis"
    /\ call.task_id \in DOMAIN sessions
    /\ call.operations # <<>>
    /\ \A i \in 1..Len(call.operations) :
          call.operations[i].operation \in
              {"SUM", "AVG", "MAX", "MIN", "COUNT", "TOP_K", "YEAR_ANALYSIS"}
    /\ ConvertFilters(call.filters).ok

ExpectedOrderBy(sort_by) ==
    <<"ORDER", "BY">> \o
        JoinWith([i \in 1..Len(sort_by) |-> <<sort_by[i].field, sort_by[i].order>>], <<",">>)

C14_ExplicitSortPrecedence ==
    (ValidServiceRequest /\ Truthy(call.sort_by)) =>
        /\ result.ok
        /\ Cardinality(Positions(result.sql_preview, KwOrderBy)) = 1
        /\ OrderByClauseOf(result.sql_preview) = ExpectedOrderBy(Get(call.sort_by))

(***************************************************************************)
(* C15 - correlation compilation: for correlation on column a with second  *)
(* column b generate_sql returns SELECT CORR(a, b) as correlation FROM     *)
(* <table> WHERE [<caller filters in order> AND] a IS NOT NULL AND b IS    *)
(* NOT NULL: the primary-column template is not used and both guards are   *)
(* always present, after the caller's filters.                             *)
(***************************************************************************)
C15_CorrelationCompilation ==
    (IsGenerateSql /\ CorrelationPath) =>
        LET a == call.column_name
            b == Get(call.second_column)
            caller == _build_where_clause(call.where_conditions)
        IN  /\ result.ok
            /\ result.sql =
                  <<"SELECT", "CORR", "(", a, ",", b, ")", "as", "correlation",
                    "FROM", table_name>>
                  \o (IF caller = <<>> THEN <<"WHERE">> ELSE caller \o <<"AND">>)
                  \o <<a, "IS", "NOT", "NULL", "AND", b, "IS", "NOT", "NULL">>

C15_Witness ==
    /\ IsGenerateSql
    /\ call.analysis_type = CORRELATION
    /\ call.column_name = "amount"
    /\ call.second_column = Some("rating")
    /\ result.ok
    /\ result.sql =
          <<"SELECT", "CORR", "(", "amount", ",", "rating", ")", "as", "correlation",
            "FROM", "t", "WHERE", "age", ">", "30", "AND", "dept", "=", "'Eng'", "AND",
            "amount", "IS", "NOT", "NULL", "AND", "rating", "IS", "NOT", "NULL">>

(***************************************************************************)
(* C16 - correlation requires two numeric columns: a correlation request   *)
(* with no second column, or with a primary or second column that is not   *)
(* NUMERIC, fails at validation and no SQL text is returned.               *)
(***************************************************************************)
IsNumericColumn(column_name) ==
    column_name \in DOMAIN column_types
        /\ Category(column_types[column_name]) = CatNumeric

C16_CorrelationRequiresTwoNumeric ==
    (IsGenerateSql /\ call.analysis_type = CORRELATION
        /\ \/ IsNone(call.second_column)
           \/ ~IsNumericColumn(call.column_name)
           \/ ~IsNumericColumn(Get(call.second_column)))
        => ~result.ok

(***************************************************************************)
(* C17 - incompatible composition: compiling a multi-operation request     *)
(* that mixes an intrinsically-grouping operation (top_k, year_analysis)   *)
(* with a non-grouping scalar aggregate (avg) fails and returns no SQL.    *)
(***************************************************************************)
MixedComposition(analysis_config) ==
    /\ \A i \in 1..Len(analysis_config) : analysis_config[i].type \in AnalysisType
    /\ \E i \in 1..Len(analysis_config) : analysis_config[i].type \in IntrinsicallyGrouping
    /\ \E i \in 1..Len(analysis_config) : analysis_config[i].type \notin IntrinsicallyGrouping

C17_IncompatibleComposition ==
    (call.fn = "generate_multi_column_sql" /\ MixedComposition(call.analysis_config))
        => ~result.ok

(***************************************************************************)
(* C18 - grouped aggregate shape: for one or several scalar-aggregate      *)
(* (non-grouping) operations with caller group-by columns g1..gk the       *)
(* statement is SELECT g1, ..., gk, <fragment1>, ..., <fragmentm> FROM     *)
(* <table> [WHERE ...] GROUP BY g1, ..., gk: the keys first in the given   *)
(* order, then each operation's SELECT fragment without its SELECT         *)
(* keyword, in request order.                                              *)
(***************************************************************************)
\* an operation's SELECT fragment: its template without the leading keyword
Fragment(column_name, analysis_type) == Tail(SQL_TEMPLATES(column_name)[analysis_type])

\* the claimed statement for the operations ops (a sequence of [col, type])
GroupedShape(ops, keys, where_conditions) ==
    <<"SELECT">> \o CommaList(keys) \o <<",">>
        \o JoinWith([i \in 1..Len(ops) |-> Fragment(ops[i].col, ops[i].type)], <<",">>)
        \o <<"FROM", table_name>>
        \o _build_where_clause(where_conditions)
        \o <<"GROUP", "BY">> \o CommaList(keys)

ScalarAggregates == AnalysisType \ IntrinsicallyGrouping

\* a statement without its LIMIT clause
WithoutLimit(sql) ==
    IF Positions(sql, KwLimit) = {} THEN sql
    ELSE SubSeq(sql, 1, SetMin(Positions(sql, KwLimit)) - 1)

GroupedSingle ==
    /\ IsGenerateSql
    /\ call.analysis_type \in ScalarAggregates
    /\ Truthy(call.group_by_columns)

GroupedMulti ==
    /\ call.fn = "generate_multi_column_sql"
    /\ \A i \in 1..Len(call.analysis_config) :
          call.analysis_config[i].type \in ScalarAggregates
    /\ Truthy(call.group_by_columns)

\* the claim as stated: every scalar aggregate, correlation included
C18_GroupedAggregateShapeAsClaimed ==
    /\ GroupedSingle =>
          /\ result.ok
          /\ WithoutLimit(result.sql) =
                GroupedShape(<<[col |-> call.column_name, type |-> call.analysis_type]>>,
                             Get(call.group_by_columns), call.where_conditions)
    /\ GroupedMulti =>
          /\ result.ok
          /\ result.sql = GroupedShape(call.analysis_config, Get(call.group_by_columns),
                                       call.where_conditions)

\* C18 as amended: the shape holds off the correlation path, followed by
\* LIMIT L when a limit is given; a correlation with a second column is not
\* grouped at all
C18_GroupedAggregateShape ==
    /\ GroupedSingle =>
          /\ result.ok
          /\ IF CorrelationPath
             THEN Positions(result.sql, KwGroupBy) = {}
             ELSE result.sql =
                    GroupedShape(<<[col |-> call.column_name, type |-> call.analysis_type]>>,
                                 Get(call.group_by_columns), call.where_conditions)
                    \o (IF IsNone(call.limit) THEN <<>>
                        ELSE <<"LIMIT", ToString(Get(call.limit))>>)
    /\ GroupedMulti =>
          /\ result.ok
          /\ result.sql = GroupedShape(call.analysis_config, Get(call.group_by_columns),
                                       call.where_conditions)

C18_Witness ==
    /\ IsGenerateSql
    /\ call.analysis_type = AVG
    /\ call.column_name = "amount"
    /\ call.group_by_columns = Some(<<"dept", "region">>)
    /\ result.ok
    /\ result.sql =
          <<"SELECT", "dept", ",", "region", ",", "AVG", "(", "amount", ")", "as",
            "avg_amount", "FROM", "t", "GROUP", "BY", "dept", ",", "region">>

(***************************************************************************)
(* C19 - every offered operation compiles: generate_sql on an operation of *)
(* the enumeration returns, without raising, a non-empty statement with a  *)
(* SELECT list and FROM <table>, so get_analysis_examples returns exactly  *)
(* one example per operation get_available_analysis_types offers for the   *)
(* column, none skipped, whatever the column's category.                   *)
(***************************************************************************)
\* a statement with a non-empty SELECT list and FROM <table>
WellFormedStatement(sql) ==
    /\ sql # <<>>
    /\ Head(sql) = "SELECT"
    /\ Positions(sql, <<"FROM", table_name>>) # {}
    /\ SelectListOf(sql) # <<>>

C19_EveryOfferedOperationCompiles ==
    /\ (IsGenerateSql /\ call.analysis_type \in AnalysisType) =>
          result.ok /\ WellFormedStatement(result.sql)
    /\ call.fn = "get_analysis_examples" =>
          LET offered == get_available_analysis_types(column_types, call.column_name)
          IN  /\ Len(result) = Len(offered)
              /\ \A i \in 1..Len(offered) :
                    /\ result[i].type = offered[i]
                    /\ WellFormedStatement(result[i].sql)

C19_Witness ==
    /\ call.fn = "get_analysis_examples"
    /\ call.column_name \in DOMAIN column_types
    /\ Category(column_types[call.column_name]) = CatOther
    /\ Len(result) = 3
    /\ result[3].type = DATA_QUALITY
    /\ result[3].sql =
          <<"SELECT", "COUNT", "(", "*", ")", "as", "total_count", ",", "COUNT", "(",
            call.column_name, ")", "as", "non_null_count", ",", "COUNT", "(", "DISTINCT",
            call.column_name, ")", "as", "distinct_count", "FROM", "t">>

(***************************************************************************)
(* C20 - uniform result envelope: SQLExecutor.execute_analysis and         *)
(* execute_multi_column_analysis return either success with a result, the  *)
(* compiled text and no error, or failure with no result, no sql and an    *)
(* error message; never a mixture, whether the failure comes from an       *)
(* unknown operation name, from compilation or from the engine.            *)
(***************************************************************************)
IsExecutorCall ==
    call.fn \in {"SQLExecutor.execute_analysis", "SQLExecutor.execute_multi_column_analysis"}

\* what the call's arguments compile to
CompiledText ==
    IF call.fn = "SQLExecutor.execute_analysis"
    THEN generate_sql(call.table_name, call.column_name, call.analysis_type,
                      call.group_by_columns, call.where_conditions, call.limit,
                      call.top_k, call.second_column).sql
    ELSE generate_multi_column_sql(call.table_name, call.analysis_config,
                                   call.group_by_columns, call.where_conditions).sql

C20_UniformEnvelope ==
    IsExecutorCall =>
        /\ DOMAIN result = {"success", "result", "sql", "error"}
        /\ \/ /\ result.success = TRUE
              /\ result.result # <<>>
              /\ result.sql = Some(CompiledText)
              /\ result.error = <<>>
           \/ /\ result.success = FALSE
              /\ result.result = <<>>
              /\ result.sql = <<>>
              /\ result.error # <<>>

\* the engine fails on a statement that compiled
C20_Witness ==
    /\ call.fn = "SQLExecutor.execute_analysis"
    /\ call.table_name = "t"
    /\ call.analysis_type = TOP_K
    /\ result.success = FALSE
    /\ result.error = Some(<<"engine error">>)
    /\ result.sql = <<>>
    /\ result.result = <<>>

(***************************************************************************)
(* C21 - compile before execute, no retry: within one call of              *)
(* SQLExecutor.execute_analysis or execute_multi_column_analysis the       *)
(* analysis statement goes to the engine at most once, and only when every *)
(* operation name was recognised and compilation returned a complete       *)
(* statement (the one that is sent); with an unrecognised name, even one   *)
(* among several, or a compilation that raises, nothing is sent; a failing *)
(* engine call is reported at once, after that single attempt.             *)
(***************************************************************************)
AllNamesRecognized ==
    IF call.fn = "SQLExecutor.execute_analysis" THEN IsEnumValue(call.analysis_type)
    ELSE \A i \in 1..Len(call.analysis_config) : IsEnumValue(call.analysis_config[i].type)

\* constructing the generator and compiling the call's arguments
Compilation ==
    IF ~GeneratorConstructs(call.table_name) THEN Raise("CatalogException")
    ELSE IF call.fn = "SQLExecutor.execute_analysis"
    THEN generate_sql(call.table_name, call.column_name, call.analysis_type,
                      call.group_by_columns, call.where_conditions, call.limit,
                      call.top_k, call.second_column)
    ELSE generate_multi_column_sql(call.table_name, call.analysis_config,
                                   call.group_by_columns, call.where_conditions)

C21_CompileBeforeExecute ==
    IsExecutorCall =>
        /\ Len(engine_log) <= 1
        /\ engine_log # <<>> =>
              /\ AllNamesRecognized
              /\ Compilation.ok
              /\ WellFormedStatement(Compilation.sql)
              /\ engine_log = <<Compilation.sql>>
        /\ (~AllNamesRecognized \/ ~Compilation.ok) => engine_log = <<>>
        /\ (engine_log # <<>> /\ ~result.success) =>
              result.error = Some(<<"engine error">>)

\* the engine rejects the compiled statement of a two-column request: it
\* was sent once and the failure is the call's result
C21_Witness ==
    /\ call.fn = "SQLExecutor.execute_multi_column_analysis"
    /\ AllNamesRecognized
    /\ Len(engine_log) = 1
    /\ engine_log[1] = Compilation.sql
    /\ result.success = FALSE
    /\ result.error = Some(<<"engine error">>)

(***************************************************************************)
(* C22 - operation names are matched case-insensitively: every upper,      *)
(* lower or mixed-case spelling of an operation's name (avg, AVG, Avg) is  *)
(* accepted by SQLExecutor.execute_analysis and resolves to the same       *)
(* operation, i.e. the call is not answered with the unsupported-type      *)
(* envelope and compiles what the lower-case value compiles.               *)
(***************************************************************************)
\* mixed-case spellings the requests use, with their lower-case form
MixedCaseNames == << <<"Avg", AVG>>, <<"Top_K", TOP_K>> >>

\* str.lower() of an operation name: a member's name is its value in upper
\* case, so the name lower-cases to the value
LowerName(name) ==
    IF name \in MemberNames THEN Member(name)
    ELSE IF \E i \in 1..Len(MixedCaseNames) : MixedCaseNames[i][1] = name
    THEN MixedCaseNames[CHOOSE i \in 1..Len(MixedCaseNames) :
                            MixedCaseNames[i][1] = name][2]
    ELSE name

C22_CaseInsensitiveNames ==
    (/\ call.fn = "SQLExecutor.execute_analysis"
     /\ GeneratorConstructs(call.table_name)
     /\ LowerName(call.analysis_type) \in AnalysisType) =>
        /\ result # UnsupportedEnvelope(call.analysis_type)
        /\ result.success =>
              result.sql = Some(generate_sql(call.table_name, call.column_name,
                                             LowerName(call.analysis_type),
                                             call.group_by_columns,
                                             call.where_conditions, call.limit,
                                             call.top_k, call.second_column).sql)

(***************************************************************************)
(* C23 - default operation: get_default_analysis returns avg for every     *)
(* column whose raw type classifies as NUMERIC (every numeric keyword,     *)
(* parameterised forms such as decimal(10,2) and keywords such as smallint *)
(* or hugeint included) and count for every TEXT, TEMPORAL and OTHER       *)
(* column.                                                                 *)
(***************************************************************************)
C23_DefaultOperation ==
    (call.fn = "get_default_analysis" /\ call.column_name \in DOMAIN column_types) =>
        result = IF Category(column_types[call.column_name]) = CatNumeric
                 THEN "avg" ELSE "count"

(***************************************************************************)
(* C24 - the result carries the compiled SQL of the whole request: for a   *)
(* request to /api/analyze on an open session with valid operations one    *)
(* statement is compiled and executed, the answer is {columns, rows,       *)
(* sql_preview} with sql_preview that statement, and the statement carries *)
(* the request's group_by, sort_by and limit.                              *)
(***************************************************************************)
ValidAnalyzeRequest ==
    /\ call.fn = "POST /api/analyze"
    /\ call.task_id \in DOMAIN sessions
    /\ \A i \in 1..Len(call.operations) :
          call.operations[i].operation \in
              {"SUM", "AVG", "MAX", "MIN", "COUNT", "TOP_K", "YEAR_ANALYSIS"}

C24_SqlPreviewOfWholeRequest ==
    ValidAnalyzeRequest =>
        /\ Len(engine_log) = 1
        /\ result.response.status = 200 =>
              Get(result.response.body).sql_preview = engine_log[1]
        /\ Truthy(call.group_by) =>
              GroupByClauseOf(engine_log[1]) # <<>>
        /\ Truthy(call.sort_by) =>
              OrderByClauseOf(engine_log[1]) = ExpectedOrderBy(Get(call.sort_by))
        /\ call.limit # <<>> =>
              LimitClauseOf(engine_log[1]) = <<"LIMIT", ToString(Get(call.limit))>>

(***************************************************************************)
(* C25 - typed error surface for unknown sessions: a request to the        *)
(* schema, analysis-options, analyze, export (sql, excel) or session-info  *)
(* route with a task_id that has no open session is answered with status   *)
(* 404 and the session-not-found kind, never with a generic 500.           *)
(***************************************************************************)
SessionRoutes ==
    {"GET /api/schema", "GET /api/analysis-options", "POST /api/analyze",
     "GET /api/export/sql", "GET /api/export/excel", "GET /api/session-info"}

C25_UnknownSessionIs404 ==
    (call.fn \in SessionRoutes /\ call.task_id \notin DOMAIN sessions) =>
        /\ result.service = Raise("SessionNotFoundError")
        /\ result.response.status = 404
        /\ result.response.kind = Some("SESSION_NOT_FOUND")

(***************************************************************************)
(* C26 - clause order: every statement generate_sql returns (correlation   *)
(* path included) is SELECT <list> FROM <table>, then optionally WHERE,    *)
(* GROUP BY, ORDER BY, LIMIT in that relative order; SELECT and FROM are   *)
(* always present and each clause keyword occurs at most once at top       *)
(* level, for every operation, filter, group-by, limit and top_k.          *)
(***************************************************************************)
ClauseKeywords == <<KwFrom, KwWhere, KwGroupBy, KwOrderBy, KwLimit>>

\* where each clause keyword starts at top level
ClausePositions(sql) ==
    <<Positions(sql, KwFrom), Positions(sql, KwWhere), Positions(sql, KwGroupBy),
      Positions(sql, KwOrderBy), Positions(sql, KwLimit)>>

\* the keywords that occur come in the order of ClauseKeywords
InClauseOrder(pos) ==
    \A i, j \in 1..Len(ClauseKeywords) :
        (i < j /\ pos[i] # {} /\ pos[j] # {}) => SetMin(pos[i]) < SetMin(pos[j])

C26_ClauseOrder ==
    (IsGenerateSql /\ result.ok) =>
        LET pos == ClausePositions(result.sql)
        IN  /\ Positions(result.sql, <<"SELECT">>) = {1}
            /\ Cardinality(pos[1]) = 1
            /\ \A i \in pos[1] : i > 2 /\ result.sql[i + 1] = table_name
            /\ \A i \in 1..Len(ClauseKeywords) : Cardinality(pos[i]) <= 1
            /\ InClauseOrder(pos)

\* a statement with all six clauses
C26_Witness ==
    /\ IsGenerateSql
    /\ result.ok
    /\ Truthy(call.where_conditions)
    /\ LET pos == ClausePositions(result.sql)
       IN  /\ \A i \in 1..Len(ClauseKeywords) : pos[i] # {}
           /\ InClauseOrder(pos)

(***************************************************************************)
(* C27 - session lifecycle: after any sequence of create_session and       *)
(* close_session calls, close_session(t) returns True and removes exactly  *)
(* the entry t when t is open (the other sessions unchanged) and returns   *)
(* False leaving the map unchanged when t is not open; a closed session    *)
(* stays closed, and every get_schema, get_analysis_options,               *)
(* get_session_info, execute_analysis, execute_custom_query, export_sql    *)
(* and export_excel on a session that is not open raises                   *)
(* SessionNotFoundError.                                                   *)
(***************************************************************************)
\* the routes that hand task_id to one of the seven methods
SessionMethodRoutes ==
    {"GET /api/schema", "GET /api/analysis-options", "GET /api/session-info",
     "POST /api/analyze", "POST /api/query/custom", "GET /api/export/sql",
     "GET /api/export/excel"}

NotOpenRaises ==
    /\ (call.fn \in SessionMethodRoutes /\ call.task_id \notin DOMAIN sessions) =>
          result.service = Raise("SessionNotFoundError")
    /\ (call.fn = "execute_analysis" /\ call.task_id \notin DOMAIN sessions) =>
          result = Raise("SessionNotFoundError")

CloseStep ==
    /\ (call = Idle /\ call'.fn = "close_session") =>
          IF call'.task_id \in DOMAIN sessions
          THEN /\ result' = TRUE
               /\ DOMAIN sessions' = DOMAIN sessions \ {call'.task_id}
               /\ \A t \in DOMAIN sessions' : sessions'[t] = sessions[t]
          ELSE /\ result' = FALSE
               /\ sessions' = sessions
    /\ \A t \in issued \ DOMAIN sessions : t \notin DOMAIN sessions'

C27_SessionLifecycle == []NotOpenRaises /\ [][CloseStep]_vars

\* a closed session is asked for its schema while another session is open
C27_Witness ==
    /\ call.fn = "GET /api/schema"
    /\ call.task_id \in issued \ DOMAIN sessions
    /\ DOMAIN sessions # {}
    /\ result.service = Raise("SessionNotFoundError")

(***************************************************************************)
(* C28 - session table invariant: for every session create_session stored, *)
(* the session's table_name names a table that exists in the session's own *)
(* connection: the table the file was imported into under that connection  *)
(* carries exactly the stored table_name.                                  *)
(***************************************************************************)
C28_SessionTableExists ==
    \A t \in DOMAIN sessions : sessions[t].tables = {sessions[t].table_name}

(***************************************************************************)
(* C29 - DBEngine import guard: while no import_excel / import_dataframe   *)
(* call has returned success=True, execute_analysis,                       *)
(* execute_multi_column_analysis and execute_custom_sql return the failure *)
(* envelope (success False, result None, the "import a file first" error)  *)
(* and nothing is sent to the engine.                                      *)
(***************************************************************************)
EngineCalls ==
    {"DBEngine.execute_analysis", "DBEngine.execute_multi_column_analysis",
     "DBEngine.execute_custom_sql"}

C29_ImportGuard ==
    (call.fn \in EngineCalls /\ memo = <<>>) =>
        /\ result.success = FALSE
        /\ result.result = <<>>
        /\ result.error = Some(<<"import a file first">>)
        /\ engine_log = <<>>

(***************************************************************************)
(* C30 - the two capability registries agree: for every column, the names  *)
(* ExcelAnalyzer.get_available_analyses lists are, as a set, the values of *)
(* the operations SQLGenerator.get_available_analysis_types lists.         *)
(***************************************************************************)
C30_RegistriesAgree ==
    call.fn = "get_available_analyses" =>
        Range(result) = Range(get_available_analysis_types(column_types,
                                                           call.column_name))

====
